---- MODULE Spec2Model ----
(***************************************************************************)
(* A model of the rust-bus dispatch engine: the Interfaces registry and    *)
(* its handle(), the per-server object tree, the Server's message routing  *)
(* and signal matching, and the Runner's dispatch loop.                    *)
(*                                                                         *)
(* Strings the code takes apart (object paths, signatures) are sequences   *)
(* of one-character strings, so that starts_with, split and join are       *)
(* computed.  Strings the code only compares for equality or order         *)
(* (interface, member and bus names) are TLA+ strings.  Option<T> is a     *)
(* sequence of length at most one.                                         *)
(***************************************************************************)
EXTENDS Integers, Sequences, FiniteSets, TLC

VARIABLES
    listeners,   \* Runner.listeners : Vec<Server>
    servers,     \* Runner.servers : BTreeMap<String, Server>
    regOrder,    \* history: bus names in the order add_server inserted them
    nextHandler, \* identity of the next closure handed to connect
    pc,          \* "idle" | "running" (Runner::run waits for a message) |
                 \* "handled" (the fold's body is done) | "panicked"
    last,        \* the message processed by the latest dispatch step
    offered,     \* servers whose handle_message saw that message, in order
    sent,        \* Connection::send calls made for that message, in order
    invoked,     \* method callbacks and property handlers run for it, in order
    fired,       \* signal handlers run for that message, in order
    consumed,    \* whether the servers' fold ended with None
    result,      \* outcome of the latest control operation
    ifaces,      \* the InterfacesBuilder / Interfaces value the application holds
    leases       \* Connection::request_name and release_name calls made by
                 \* the latest step, in order

vars == <<listeners, servers, regOrder, nextHandler, pc, last, offered, sent,
          invoked, fired, consumed, result, ifaces, leases>>

----------------------------------------------------------------------------
(* Bounds *)

MaxListeners == 2
MaxHandlers == 2

----------------------------------------------------------------------------
(* Option and string helpers *)

None == <<>>
Some(x) == <<x>>
IsSome(o) == o /= <<>>
Unwrap(o) == o[1]

Range(f) == {f[x] : x \in DOMAIN f}

starts_with(s, p) == Len(s) >= Len(p) /\ SubSeq(s, 1, Len(p)) = p

RECURSIVE SplitAcc(_, _, _)
SplitAcc(s, cur, acc) ==
    IF s = <<>> THEN Append(acc, cur)
    ELSE IF Head(s) = "/" THEN SplitAcc(Tail(s), <<>>, Append(acc, cur))
    ELSE SplitAcc(Tail(s), Append(cur, Head(s)), acc)

\* str::split("/"): "/a/b" gives "", "a", "b"
split(s) == SplitAcc(s, <<>>, <<>>)

\* Iterator::skip(1)
skip1(q) == IF q = <<>> THEN <<>> ELSE Tail(q)

RECURSIVE join(_)
\* Vec<String>::join("")
join(q) == IF q = <<>> THEN <<>> ELSE Head(q) \o join(Tail(q))

\* u8 order of the characters that occur in object paths
CharRank(c) == CASE c = "/" -> 47 [] c = "a" -> 97 [] c = "b" -> 98

RECURSIVE PathLess(_, _)
\* String::cmp on object paths (lexicographic by byte)
PathLess(x, y) ==
    IF y = <<>> THEN FALSE
    ELSE IF x = <<>> THEN TRUE
    ELSE IF Head(x) /= Head(y) THEN CharRank(Head(x)) < CharRank(Head(y))
    ELSE PathLess(Tail(x), Tail(y))

\* String::cmp on the interface, member and bus names of the model, listed
\* in ascending byte order
StringOrder == <<"Changed", "Removed", "com.a", "com.b", "com.c",
                 "com.example.Iface", "com.example.Other">>

StrRank(s) == CHOOSE i \in 1..Len(StringOrder) : StringOrder[i] = s

StrLess(a, b) == StrRank(a) < StrRank(b)

----------------------------------------------------------------------------
(* Interface model (interface.rs) *)

PeerName == "org.freedesktop.DBus.Peer"
PropertiesName == "org.freedesktop.DBus.Properties"
IntrospectableName == "org.freedesktop.DBus.Introspectable"
ObjectManagerName == "org.freedesktop.DBus.ObjectManager"
UserIfaceName == "com.example.Iface"

ErrInvalidArgs == "org.freedesktop.DBus.Error.InvalidArgs"
ErrUnknownInterface == "org.freedesktop.DBus.Error.UnknownInterface"
ErrUnknownMethod == "org.freedesktop.DBus.Error.UnknownMethod"
ErrUnknownObject == "org.freedesktop.DBus.Error.UnknownObject"
ErrFailed == "org.freedesktop.DBus.Error.Failed"

\* Argument::new(name, sig): only the signature takes part in dispatch
Argument(sig) == sig

\* Method::new(cb).add_argument(..).add_result(..)
Method(ins, outs, cb) == [in_args |-> ins, out_args |-> outs, cb |-> cb]

\* Interface::new().add_method(..).add_property(..)
InterfaceWith(methods, properties) == [methods |-> methods, properties |-> properties]

\* Interface::new().add_method(..)
Interface(methods) == InterfaceWith(methods, <<>>)

\* Values of the codec: a signature and a payload
StringValue(s) == [sig |-> <<"s">>, v |-> s]
IntValue == [sig |-> <<"i">>, v |-> "0"]
DictionaryValue(keys) == [sig |-> <<"a", "{", "s", "v", "}">>, v |-> keys]

\* Value::get_signature
get_signature(value) == value.sig

\* PeerInterface::new
PeerInterface ==
    Interface(("Ping" :> Method(<<>>, <<>>, "ping")) @@
              ("GetMachineId" :> Method(<<>>, << Argument(<<"s">>) >>, "get_machine_id")))

\* PropertyInterface::new
PropertyInterface ==
    Interface(("Get" :> Method(<< Argument(<<"s">>), Argument(<<"s">>) >>,
                               << Argument(<<"v">>) >>, "get_property")) @@
              ("Set" :> Method(<< Argument(<<"s">>), Argument(<<"s">>) >>,
                               << Argument(<<"v">>) >>, "set_property")) @@
              ("GetAll" :> Method(<< Argument(<<"s">>) >>,
                                  << Argument(<<"{", "s", "v", "}">>) >>,
                                  "get_all_properties")))

\* IntrospectableInterface::new
IntrospectableInterface ==
    Interface("Introspect" :> Method(<<>>, << Argument(<<"s">>) >>, "introspect"))

\* DBusObjectManagerInterface::new
DBusObjectManagerInterface ==
    Interface("GetManagedObjects" :>
        Method(<<>>, << Argument(<<"a", "{", "o", "a", "{", "s", "a", "{", "s", "v", "}", "}", "}">>) >>,
               "get_managed_objects"))

\* An interface of the application: one method Echo(s, i) -> s whose
\* callback is application code
UserInterface ==
    Interface("Echo" :> Method(<< Argument(<<"s">>), Argument(<<"i">>) >>,
                               << Argument(<<"s">>) >>, "user"))

Ok(v) == [ok |-> TRUE, val |-> v]
Err(e) == [ok |-> FALSE, err |-> e]

\* add_interface as it would be with an entry that takes the new interface
\* whether or not the name is taken
add_interface_replacing(map, name, iface) ==
    Ok([n \in DOMAIN map \cup {name} |-> IF n = name THEN iface ELSE map[n]])

\* InterfacesBuilder::add_interface
add_interface(map, name, iface) ==
    IF name \in DOMAIN map
    THEN Err("InterfaceAlreadyRegistered")
    ELSE Ok(map @@ (name :> iface))

\* Result::and_then over the builder
and_then_add(res, name, iface) ==
    IF res.ok THEN add_interface(res.val, name, iface) ELSE res

\* InterfacesBuilder::finalize
finalize(map) ==
    and_then_add(
        and_then_add(
            and_then_add(Ok(map), PeerName, PeerInterface),
            PropertiesName, PropertyInterface),
        IntrospectableName, IntrospectableInterface)

\* Interfaces::new: an empty builder
NewBuilder == <<>>

\* Interfaces::new().add_interface("com.example.Iface", ..)
UserBuilder == (UserIfaceName :> UserInterface)

\* The builders the application hands to add_object or finalizes
Builders == {NewBuilder, UserBuilder}

\* The map as a finalize that fails leaves it: the standard interfaces are
\* inserted one after the other until a name is taken
finalize_reached(map) ==
    LET peer == and_then_add(Ok(map), PeerName, PeerInterface) IN
    IF ~peer.ok THEN map
    ELSE LET props == and_then_add(peer, PropertiesName, PropertyInterface) IN
         IF ~props.ok THEN peer.val
         ELSE LET intro == and_then_add(props, IntrospectableName, IntrospectableInterface) IN
              IF ~intro.ok THEN props.val ELSE intro.val

\* Interfaces::_signature
_signature(args) == join(args)

\* Interfaces::_msg_signature: the body is the list of the message's values
_msg_signature(msg) == join([i \in 1..Len(msg.body) |-> get_signature(msg.body[i])])

\* _check_signature with the comparison inverted
_check_signature_inverted(args, msg) == _signature(args) /= _msg_signature(msg)

\* Interfaces::_check_signature
_check_signature(args, msg) == _signature(args) = _msg_signature(msg)

\* CallHeaders::new
CallHeaders(msg) ==
    IF IsSome(msg.interface) /\ IsSome(msg.member)
    THEN Some([interface |-> Unwrap(msg.interface), method |-> Unwrap(msg.member)])
    ELSE None

\* Message::return_message followed by add_argument for each value
ReturnMessage(vals) == [type |-> "MethodReturn", name |-> "", body |-> vals]

\* Message::error_message(name).add_argument(text)
ErrorReply(name, text) ==
    [type |-> "Error", name |-> name, body |-> << StringValue(text) >>]

\* ErrorMessage::new(name, message)
ErrorMessage(name, text) == [name |-> name, message |-> text]

\* ErrorMessage::into_message
into_message(err) == ErrorReply(err.name, err.message)

\* Arguments::invalid_arguments
invalid_arguments == ErrorMessage(ErrInvalidArgs, "invalid arguments")

\* Arguments::invalid_argument
invalid_argument(index) == ErrorMessage(ErrInvalidArgs, "invalid argument")

----------------------------------------------------------------------------
(* Properties (interface.rs) *)

\* Property::_check_signature
Property_check_signature(prop, value) == prop.signature = get_signature(value)

\* Log entries: a method callback that was invoked, with what it produced,
\* and a property handler that was invoked
MethodInvocation(interface, method, out) ==
    [kind |-> "method", interface |-> interface, name |-> method,
     panic |-> out.panic, res |-> out.res]
PropertyInvocation(kind, name) ==
    [kind |-> kind, interface |-> "", name |-> name, panic |-> FALSE, res |-> Ok(<<>>)]

\* What a callback produced: it panicked, or it returned a MethodResult;
\* calls lists the application handlers it ran
Returned(res, calls) == [panic |-> FALSE, res |-> res, calls |-> calls]
Panicked(calls) == [panic |-> TRUE, res |-> Err(invalid_arguments), calls |-> calls]

\* Interface::_require_property
_require_property(iface, name) ==
    IF name \in DOMAIN iface.properties
    THEN Ok(iface.properties[name])
    ELSE Err(ErrorMessage("org.freedesktop.DBus.Error.UnknownProperty", "unknown property"))

\* Interface::get_property_value; env.get is what the property's getter
\* returns when it is asked
get_property_value(iface, name, env) ==
    LET req == _require_property(iface, name) IN
    IF ~req.ok THEN Returned(Err(req.err), <<>>)
    ELSE LET prop == req.val
             readable == prop.access \in {"RO", "RW"}
             res == IF readable THEN env.get
                    ELSE Err(ErrorMessage(ErrFailed, "property is write-only"))
             calls == IF readable THEN << PropertyInvocation("get", name) >> ELSE <<>>
         IN IF res.ok /\ Property_check_signature(prop, res.val)
            THEN Panicked(calls)
            ELSE IF res.ok THEN Returned(Ok(<< res.val >>), calls)
            ELSE Returned(res, calls)

\* Interface::set_property_value; env.set is what the property's setter
\* returns when it is asked
set_property_value(iface, name, value, env) ==
    LET req == _require_property(iface, name) IN
    IF ~req.ok THEN Returned(Err(req.err), <<>>)
    ELSE LET prop == req.val IN
         IF Property_check_signature(prop, value)
         THEN Returned(Err(invalid_arguments), <<>>)
         ELSE IF prop.access \in {"WO", "RW"}
         THEN Returned(IF env.set.ok THEN Ok(<<>>) ELSE env.set,
                       << PropertyInvocation("set", name) >>)
         ELSE Returned(Err(ErrorMessage(ErrFailed, "property is read-only")), <<>>)

\* Interface::get_property_map: the names of the properties whose getter
\* answered
get_property_map(iface, env) ==
    {k \in DOMAIN iface.properties :
        iface.properties[k].access \in {"RO", "RW"} /\ env.get.ok}

\* require_interface answering as handle does for an interface it does not
\* find
require_interface_as_method(map, name) ==
    IF name \in DOMAIN map
    THEN Ok(map[name])
    ELSE Err(ErrorMessage(ErrUnknownMethod, "unknown interface"))

\* require_interface
require_interface(map, name) ==
    IF name \in DOMAIN map
    THEN Ok(map[name])
    ELSE Err(ErrorMessage(ErrUnknownInterface, "unknown interface"))

\* Arguments::extract
extract(values, index) ==
    IF index + 1 <= Len(values) THEN Ok(values[index + 1])
    ELSE Err(invalid_argument(index))

\* Arguments::extract_string
extract_string(values, index) ==
    LET value == extract(values, index) IN
    IF ~value.ok THEN value
    ELSE IF value.val.sig = <<"s">> THEN Ok(value.val.v)
    ELSE Err(invalid_argument(index))

\* get_property looking names up in the registry as it was when finalize
\* made the Properties interface: without Properties and Introspectable
get_property_snapshot(map, msg, env) ==
    LET iface == extract_string(msg.body, 0)
        property == extract_string(msg.body, 1)
        smap == [n \in DOMAIN map \ {PropertiesName, IntrospectableName} |-> map[n]]
    IN  IF msg.body = <<>> THEN Returned(Err(invalid_arguments), <<>>)
        ELSE IF ~iface.ok THEN Returned(iface, <<>>)
        ELSE IF ~property.ok THEN Returned(property, <<>>)
        ELSE LET found == require_interface(smap, iface.val) IN
             IF ~found.ok THEN Returned(found, <<>>)
             ELSE get_property_value(found.val, property.val, env)

\* PropertyInterface::get_property
get_property(map, msg, env) ==
    LET iface == extract_string(msg.body, 0)
        property == extract_string(msg.body, 1)
    IN  IF msg.body = <<>> THEN Returned(Err(invalid_arguments), <<>>)
        ELSE IF ~iface.ok THEN Returned(iface, <<>>)
        ELSE IF ~property.ok THEN Returned(property, <<>>)
        ELSE LET found == require_interface(map, iface.val) IN
             IF ~found.ok THEN Returned(found, <<>>)
             ELSE get_property_value(found.val, property.val, env)

\* PropertyInterface::set_property
set_property(map, msg, env) ==
    LET iface == extract_string(msg.body, 0)
        property == extract_string(msg.body, 1)
        value == extract(msg.body, 2)
    IN  IF msg.body = <<>> THEN Returned(Err(invalid_arguments), <<>>)
        ELSE IF ~iface.ok THEN Returned(iface, <<>>)
        ELSE IF ~property.ok THEN Returned(property, <<>>)
        ELSE IF ~value.ok THEN Returned(value, <<>>)
        ELSE LET found == require_interface(map, iface.val) IN
             IF ~found.ok THEN Returned(found, <<>>)
             ELSE set_property_value(found.val, property.val, value.val, env)

\* PropertyInterface::get_all_properties
get_all_properties(map, msg, env) ==
    LET iface == extract_string(msg.body, 0) IN
    IF msg.body = <<>> THEN Returned(Err(invalid_arguments), <<>>)
    ELSE IF ~iface.ok THEN Returned(iface, <<>>)
    ELSE LET found == require_interface(map, iface.val) IN
         IF ~found.ok THEN Returned(found, <<>>)
         ELSE Returned(Ok(<< DictionaryValue(get_property_map(found.val, env)) >>),
                       [i \in 1..Cardinality({k \in DOMAIN found.val.properties :
                                found.val.properties[k].access \in {"RO", "RW"}})
                          |-> PropertyInvocation("get", "*")])

----------------------------------------------------------------------------
(* Interfaces::handle (interface.rs) *)

\* The method's closure, by the function it wraps; env.cb is what the
\* application's own callback returns
Callback(cb, map, msg, env) ==
    CASE cb = "user" -> Returned(env.cb, <<>>)
      [] cb = "ping" -> Returned(Ok(<<>>), <<>>)
      [] cb = "get_machine_id" -> Returned(Ok(<< StringValue("machine") >>), <<>>)
      [] cb = "introspect" -> Returned(Ok(<< StringValue("xml") >>), <<>>)
      [] cb = "get_property" -> get_property(map, msg, env)
      [] cb = "set_property" -> set_property(map, msg, env)
      [] cb = "get_all_properties" -> get_all_properties(map, msg, env)
      [] cb = "get_managed_objects" -> Panicked(<<>>)

\* What handling one message did: ret is the Option<Result<(),()>> handed
\* back (ret = Some(TRUE) for Some(Ok(()))), sent the replies given to
\* Connection::send, cbs the method callbacks invoked, calls the property
\* handlers they ran
Handled(ret, replies, cbs, calls, panic) ==
    [ret |-> ret, sent |-> replies, calls |-> cbs \o calls, panic |-> panic]

\* The arm of a found method as it would be without the comparison of the
\* reply with the declared out-arguments
handle_method_unchecked(iface_name, method_name, method, sig_ok, out, send) ==
    LET cbs == IF sig_ok
               THEN << MethodInvocation(iface_name, method_name, out) >>
               ELSE <<>>
        calls == IF sig_ok THEN out.calls ELSE <<>>
        res == IF sig_ok
               THEN IF out.res.ok THEN ReturnMessage(out.res.val)
                    ELSE into_message(out.res.err)
               ELSE into_message(invalid_arguments)
    IN  IF sig_ok /\ out.panic
        THEN Handled(None, <<>>, cbs, calls, TRUE)
        ELSE Handled(Some(send), << res >>, cbs, calls, FALSE)

\* Interfaces::handle, the arm of a method that was found: sig_ok is what
\* _check_signature said of the call, out what the callback produces when it
\* is invoked, send whether Connection::send succeeds
handle_method(iface_name, method_name, method, sig_ok, out, send) ==
    LET cbs == IF sig_ok
               THEN << MethodInvocation(iface_name, method_name, out) >>
               ELSE <<>>
        calls == IF sig_ok THEN out.calls ELSE <<>>
        res == IF sig_ok
               THEN IF out.res.ok THEN ReturnMessage(out.res.val)
                    ELSE into_message(out.res.err)
               ELSE into_message(invalid_arguments)
    IN  IF sig_ok /\ out.panic
        THEN Handled(None, <<>>, cbs, calls, TRUE)
        ELSE IF res.type = "MethodReturn"
                /\ _signature(method.out_args) /= _msg_signature(res)
        THEN Handled(None, <<>>, cbs, calls, TRUE)
        ELSE Handled(Some(send), << res >>, cbs, calls, FALSE)

\* Interfaces::handle; env.send is whether Connection::send succeeds
handle(map, msg, env) ==
    LET hdrs == CallHeaders(msg) IN
    IF hdrs = None THEN Handled(None, <<>>, <<>>, <<>>, FALSE)
    ELSE
    LET iface_name == Unwrap(hdrs).interface
        method_name == Unwrap(hdrs).method
        has_iface == iface_name \in DOMAIN map
        has_method == has_iface /\ method_name \in DOMAIN map[iface_name].methods
    IN  IF has_method
        THEN LET method == map[iface_name].methods[method_name] IN
             handle_method(iface_name, method_name, method,
                           _check_signature(method.in_args, msg),
                           Callback(method.cb, map, msg, env), env.send)
        ELSE IF ~has_iface
        THEN Handled(Some(env.send),
                     << ErrorReply(ErrUnknownMethod, "unknown interface") >>,
                     <<>>, <<>>, FALSE)
        ELSE Handled(Some(env.send),
                     << ErrorReply(ErrUnknownMethod, "unknown method") >>,
                     <<>>, <<>>, FALSE)

----------------------------------------------------------------------------
(* Target (target.rs) *)

\* Target::new
Target(interface, object, method) ==
    [interface |-> interface, object |-> object, method |-> method]

\* SignalHeaders::new and Target::extract
Target_extract(m) ==
    IF IsSome(m.interface) /\ IsSome(m.path) /\ IsSome(m.member)
    THEN Some(Target(Unwrap(m.interface), Unwrap(m.path), Unwrap(m.member)))
    ELSE None

\* namespace_eq comparing against the namespace's path without the "/"
namespace_eq_no_separator(self, t) ==
    /\ self.interface = t.interface
    /\ self.method = t.method
    /\ starts_with(t.object, self.object)

\* Target::namespace_eq
namespace_eq(self, t) ==
    /\ self.interface = t.interface
    /\ self.method = t.method
    /\ starts_with(t.object, self.object \o <<"/">>)

\* derive(Ord) on Target: by interface, then object, then method
TargetLess(x, y) ==
    IF x.interface /= y.interface THEN StrLess(x.interface, y.interface)
    ELSE IF x.object /= y.object THEN PathLess(x.object, y.object)
    ELSE x.method /= y.method /\ StrLess(x.method, y.method)

RECURSIVE SortedTargets(_)
\* BTreeMap<Target, _>::iter: the keys in ascending order
SortedTargets(keys) ==
    IF keys = {} THEN <<>>
    ELSE LET least == CHOOSE k \in keys : \A o \in keys \ {k} : TargetLess(k, o)
         IN  <<least>> \o SortedTargets(keys \ {least})

----------------------------------------------------------------------------
(* Object tree (server.rs).  A tree is a function from node keys (the *)
(* sequence of child names leading from the root) to nodes; a node's     *)
(* children map holds the keys one longer than its own.                  *)

\* DBusObjectTree::new_empty
new_empty == [object |-> None, manager |-> FALSE, children_names |-> <<>>]

\* DBusObjectTree::new
DBusObjectTree_new == (<<>> :> new_empty)

\* The keys of a node's children map
children(tree, at) ==
    {k[Len(k)] : k \in {c \in DOMAIN tree : Len(c) = Len(at) + 1
                                            /\ SubSeq(c, 1, Len(at)) = at}}

\* DBusObjectTree::find_object: the child node's key, if there is one
find_object(tree, at, name) ==
    IF Append(at, name) \in DOMAIN tree THEN Some(Append(at, name)) ELSE None

\* find_or_create_object that makes the child without listing its name
find_or_create_object_unlisted(tree, at, name) ==
    IF Append(at, name) \in DOMAIN tree THEN tree
    ELSE [k \in DOMAIN tree \cup {Append(at, name)} |->
            IF k = Append(at, name) THEN new_empty ELSE tree[k]]

\* DBusObjectTree::find_or_create_object
find_or_create_object(tree, at, name) ==
    IF Append(at, name) \in DOMAIN tree THEN tree
    ELSE [k \in DOMAIN tree \cup {Append(at, name)} |->
            IF k = Append(at, name) THEN new_empty
            ELSE IF k = at
            THEN [tree[k] EXCEPT !.children_names = Append(@, name)]
            ELSE tree[k]]

\* Vec::swap_remove
swap_remove(q, pos) ==
    IF pos = Len(q) THEN SubSeq(q, 1, Len(q) - 1)
    ELSE [i \in 1..(Len(q) - 1) |-> IF i = pos THEN q[Len(q)] ELSE q[i]]

\* DBusObjectTree::remove_object
remove_object(tree, at, name) ==
    IF Append(at, name) \notin DOMAIN tree THEN [tree |-> tree, object |-> None]
    ELSE LET gone == Append(at, name)
             pos == CHOOSE i \in 1..Len(tree[at].children_names) :
                        /\ tree[at].children_names[i] = name
                        /\ \A j \in 1..(i - 1) : tree[at].children_names[j] /= name
             kept == {k \in DOMAIN tree :
                        ~(Len(k) >= Len(gone) /\ SubSeq(k, 1, Len(gone)) = gone)}
         IN  [tree |-> [k \in kept |->
                          IF k = at
                          THEN [tree[k] EXCEPT !.children_names = swap_remove(@, pos)]
                          ELSE tree[k]],
              object |-> tree[gone].object]

\* DBusObject::new
DBusObject(path, iface_map) == [name |-> path, interfaces |-> iface_map]

\* The nodes whose RefCell is mutably borrowed while insert and remove run:
\* the root, which the Server borrows to call them
\* (self.objects.borrow_mut().insert(..)), and which is the node the cursor
\* starts at (self_ref)
Borrowed == {<<>>}

\* RefCell::borrow and RefCell::borrow_mut of a node's cell: whether the
\* borrow is granted (it panics otherwise)
try_borrow(at) == at \notin Borrowed

RECURSIVE insert_walk(_, _, _)
\* The fold of DBusObjectTree::insert over the path's components: the tree
\* with the nodes it created, and the cursor it reached (None: it met an
\* empty component); panic: DBusObjectTreeCursor::find_or_create asked for
\* self.tree.borrow_mut() of a cell that is borrowed
insert_walk(tree, at, components) ==
    IF components = <<>> THEN [tree |-> tree, cursor |-> Some(at), panic |-> FALSE]
    ELSE IF Head(components) = <<>>
    THEN [tree |-> tree, cursor |-> None, panic |-> FALSE]
    ELSE IF ~try_borrow(at)
    THEN [tree |-> tree, cursor |-> None, panic |-> TRUE]
    ELSE insert_walk(find_or_create_object(tree, at, Head(components)),
                     Append(at, Head(components)), Tail(components))

\* DBusObjectTreeCursor::set_object
set_object(tree, at, object, manager) ==
    [tree EXCEPT ![at] = [@ EXCEPT !.object = Some(object), !.manager = manager]]

\* DBusObjectTree::insert: the tree afterwards and the Result, or the panic
insert(tree, path, iface_map, manager) ==
    IF ~starts_with(path, <<"/">>)
    THEN [tree |-> tree, res |-> Err("InvalidPath"), panic |-> FALSE]
    ELSE LET walk == insert_walk(tree, <<>>, skip1(split(path))) IN
         IF walk.panic
         THEN [tree |-> tree, res |-> Err("panicked"), panic |-> TRUE]
         ELSE IF walk.cursor = None
         THEN [tree |-> walk.tree, res |-> Err("InvalidPath"), panic |-> FALSE]
         ELSE LET ins_cursor == Unwrap(walk.cursor) IN
         IF ~try_borrow(ins_cursor)
         THEN [tree |-> tree, res |-> Err("panicked"), panic |-> TRUE]
         ELSE IF IsSome(walk.tree[ins_cursor].object)
         THEN [tree |-> walk.tree, res |-> Err("PathAlreadyRegistered"), panic |-> FALSE]
         ELSE LET final_iface ==
                      IF manager
                      THEN add_interface(iface_map, ObjectManagerName,
                                         DBusObjectManagerInterface)
                      ELSE Ok(iface_map)
              IN  IF ~final_iface.ok
                  THEN [tree |-> walk.tree, res |-> final_iface, panic |-> FALSE]
                  ELSE LET rc_iface_map == finalize(final_iface.val) IN
                       IF ~rc_iface_map.ok
                       THEN [tree |-> walk.tree, res |-> rc_iface_map, panic |-> FALSE]
                       ELSE [tree |-> set_object(walk.tree, ins_cursor,
                                          DBusObject(path, rc_iface_map.val), manager),
                             res |-> Ok(""), panic |-> FALSE]

RECURSIVE remove_walk(_, _, _)
\* The loop of DBusObjectTree::remove: it follows every component of the
\* path (peek, find, next) until the iterator is exhausted;
\* DBusObjectTreeCursor::find asks for self.tree.borrow() and panics when
\* the cell is mutably borrowed
remove_walk(tree, at, components) ==
    IF components = <<>> THEN Ok(at)
    ELSE IF Head(components) = <<>> THEN Err("InvalidPath")
    ELSE IF ~try_borrow(at) THEN Err("panicked")
    ELSE LET found == find_object(tree, at, Head(components)) IN
         IF found = None THEN Err("NoSuchPath")
         ELSE remove_walk(tree, Unwrap(found), Tail(components))

\* DBusObjectTree::remove: after the loop the iterator is exhausted, so
\* iter.next() is None and cursor.remove is not reached
remove(tree, path) ==
    IF ~starts_with(path, <<"/">>)
    THEN [tree |-> tree, res |-> Err("InvalidPath"), panic |-> FALSE]
    ELSE LET walk == remove_walk(tree, <<>>, skip1(split(path))) IN
         IF ~walk.ok
         THEN [tree |-> tree, res |-> walk, panic |-> walk.err = "panicked"]
         ELSE LET next == None IN
              IF IsSome(next)
              THEN LET removed == remove_object(tree, walk.val, Unwrap(next)) IN
                   IF IsSome(removed.object)
                   THEN [tree |-> removed.tree, res |-> Ok(""), panic |-> FALSE]
                   ELSE [tree |-> removed.tree, res |-> Err("NoSuchPath"), panic |-> FALSE]
              ELSE [tree |-> tree, res |-> Err("NoSuchPath"), panic |-> FALSE]

----------------------------------------------------------------------------
(* Server (server.rs) *)

\* _add_handler putting a later handler in front of the earlier ones
_add_handler_front(handlers, signal, handler) ==
    IF signal \in DOMAIN handlers
    THEN [handlers EXCEPT ![signal] = <<handler>> \o @]
    ELSE handlers @@ (signal :> <<handler>>)

\* _add_handler
_add_handler(handlers, signal, handler) ==
    IF signal \in DOMAIN handlers
    THEN [handlers EXCEPT ![signal] = Append(@, handler)]
    ELSE handlers @@ (signal :> <<handler>>)

\* The fields of DBusServer
DBusServer(name, can_handle) ==
    [name |-> name, can_handle |-> can_handle, objects |-> DBusObjectTree_new,
     signals |-> <<>>, namespace_signals |-> <<>>]

\* A listener that passes for a named server
new_listener_handling(name) == Ok(DBusServer(name, TRUE))

\* DBusServer::new_listener
new_listener(name) == Ok(DBusServer(name, FALSE))

\* DBusServer::new; request is the Result of Connection::request_name
Server_new(name, request) ==
    IF ~request.ok THEN request ELSE Ok(DBusServer(name, TRUE))

\* DBusServer::add_object: the server afterwards and the Result
add_object(self, path, iface_map) ==
    IF ~self.can_handle
    THEN [server |-> self, res |-> Err("NoServerName"), panic |-> FALSE]
    ELSE LET done == insert(self.objects, path, iface_map, FALSE) IN
         [server |-> [self EXCEPT !.objects = done.tree], res |-> done.res,
          panic |-> done.panic]

\* DBusServer::add_object_manager
add_object_manager(self, path, iface_map) ==
    IF ~self.can_handle
    THEN [server |-> self, res |-> Err("NoServerName"), panic |-> FALSE]
    ELSE LET done == insert(self.objects, path, iface_map, TRUE) IN
         [server |-> [self EXCEPT !.objects = done.tree], res |-> done.res,
          panic |-> done.panic]

\* DBusServer::remove_object
Server_remove_object(self, path) ==
    IF ~self.can_handle
    THEN [server |-> self, res |-> Err("NoServerName"), panic |-> FALSE]
    ELSE LET done == remove(self.objects, path) IN
         [server |-> [self EXCEPT !.objects = done.tree], res |-> done.res,
          panic |-> done.panic]

\* A connect that registers the handler whatever add_match gave
connect_unchecked(self, signal, callback, add_match) ==
    [server |-> [self EXCEPT !.signals = _add_handler(@, signal, callback)],
     res |-> add_match]

\* DBusServer::connect; add_match is the Result of Connection::add_match
connect(self, signal, callback, add_match) ==
    IF ~add_match.ok THEN [server |-> self, res |-> add_match]
    ELSE [server |-> [self EXCEPT !.signals = _add_handler(@, signal, callback)],
          res |-> Ok("")]

\* DBusServer::connect_namespace
connect_namespace(self, signal, callback, add_match) ==
    IF ~add_match.ok THEN [server |-> self, res |-> add_match]
    ELSE [server |-> [self EXCEPT !.namespace_signals =
                                      _add_handler(@, signal, callback)],
          res |-> Ok("")]

\* What one server did with a message: pass is whether handle_message gave
\* the message back (Some(m)), handlers are the signal handlers it ran
Routed(pass, replies, calls, handlers, panic) ==
    [pass |-> pass, sent |-> replies, calls |-> calls, handlers |-> handlers,
     panic |-> panic]

\* DBusObject::handle_message: forwards to the registry
Object_handle_message(obj, m, env) == handle(obj.interfaces, m, env)

\* What the Option<Result<(), ()>> of an object becomes in _call_method:
\* None gives the message back, Some(_) consumes it
Forwarded(done) ==
    Routed(~done.panic /\ done.ret = None, done.sent, done.calls, <<>>, done.panic)

\* _call_method answering an unknown path and then handing the call back
\* (Some(m)) instead of consuming it
_call_method_forwarding(self, m, env) ==
    IF m.path = None THEN Routed(FALSE, <<>>, <<>>, <<>>, FALSE)
    ELSE IF IsSome(find_object(self.objects, <<>>, Unwrap(m.path)))
    THEN Routed(FALSE, <<>>, <<>>, <<>>, FALSE)
    ELSE Routed(TRUE, << ErrorReply(ErrUnknownObject, "unknown object") >>,
                <<>>, <<>>, FALSE)

\* _call_method handing a call for an unknown path back without a reply
_call_method_silent(self, m, env) ==
    IF m.path = None THEN Routed(FALSE, <<>>, <<>>, <<>>, FALSE)
    ELSE IF IsSome(find_object(self.objects, <<>>, Unwrap(m.path)))
    THEN Routed(FALSE, <<>>, <<>>, <<>>, FALSE)
    ELSE Routed(TRUE, <<>>, <<>>, <<>>, FALSE)

\* _call_method handing the call back when its reply could not be sent
_call_method_returning(self, m, env) ==
    IF m.path = None THEN Routed(FALSE, <<>>, <<>>, <<>>, FALSE)
    ELSE IF IsSome(find_object(self.objects, <<>>, Unwrap(m.path)))
    THEN Routed(FALSE, <<>>, <<>>, <<>>, FALSE)
    ELSE Routed(~env.send, << ErrorReply(ErrUnknownObject, "unknown object") >>,
                <<>>, <<>>, FALSE)

\* DBusServer::_call_method
_call_method(self, m, env) ==
    IF m.path = None THEN Routed(FALSE, <<>>, <<>>, <<>>, FALSE)
    ELSE LET path == Unwrap(m.path)
             tree == find_object(self.objects, <<>>, path)
         IN  IF IsSome(tree)
             THEN LET object == self.objects[Unwrap(tree)].object IN
                  IF object = None THEN Routed(FALSE, <<>>, <<>>, <<>>, FALSE)
                  ELSE Forwarded(Object_handle_message(Unwrap(object), m, env))
             ELSE Routed(FALSE, << ErrorReply(ErrUnknownObject, "unknown object") >>,
                         <<>>, <<>>, FALSE)

\* _match_signal looking exact handlers up by interface and member only
_match_signal_any_object(self, m) ==
    LET signal == Target_extract(m) IN
    IF signal = None THEN <<>>
    ELSE LET keys == SortedTargets({t \in DOMAIN self.signals :
                         /\ t.interface = Unwrap(signal).interface
                         /\ t.method = Unwrap(signal).method})
         IN  join([i \in 1..Len(keys) |-> self.signals[keys[i]]])

\* DBusServer::_match_signal: the handlers it runs, in order
_match_signal(self, m) ==
    LET signal == Target_extract(m) IN
    IF signal = None THEN <<>>
    ELSE LET exact == IF Unwrap(signal) \in DOMAIN self.signals
                      THEN self.signals[Unwrap(signal)] ELSE <<>>
             expects == SortedTargets(DOMAIN self.namespace_signals)
             matched_handlers ==
                 [i \in 1..Len(expects) |->
                     IF namespace_eq(expects[i], Unwrap(signal))
                     THEN self.namespace_signals[expects[i]] ELSE <<>>]
         IN  exact \o join(matched_handlers)

\* handle_message consuming a signal that one of its handlers matched
handle_message_consuming(self, m, env) ==
    IF m.type = "Signal"
    THEN Routed(_match_signal(self, m) = <<>>, <<>>, <<>>, _match_signal(self, m), FALSE)
    ELSE Routed(TRUE, <<>>, <<>>, <<>>, FALSE)

\* DBusServer::handle_message
handle_message(self, m, env) ==
    IF m.type = "Signal" THEN Routed(TRUE, <<>>, <<>>, _match_signal(self, m), FALSE)
    ELSE IF m.type = "MethodCall" THEN _call_method(self, m, env)
    ELSE Routed(TRUE, <<>>, <<>>, <<>>, FALSE)

----------------------------------------------------------------------------
(* Runner (runner.rs) *)

\* Who handled a message: a listener (by its place in Runner.listeners) or
\* a named server (by its key in Runner.servers)
ListenerId(i) == [kind |-> "listener", ix |-> i, name |-> ""]
ServerId(name) == [kind |-> "server", ix |-> 0, name |-> name]
DirectId == [kind |-> "direct", ix |-> 0, name |-> ""]

RECURSIVE SortedNames(_)
\* BTreeMap<String, Server>::iter_mut: the keys in ascending order
SortedNames(names) ==
    IF names = {} THEN <<>>
    ELSE LET least == CHOOSE n \in names : \A o \in names \ {n} : StrLess(n, o)
         IN  <<least>> \o SortedNames(names \ {least})

\* The record of one dispatch
NoDispatch ==
    [offered |-> <<>>, sent |-> <<>>, invoked |-> <<>>, fired |-> <<>>,
     consumed |-> FALSE, panic |-> FALSE]

Tagged(id, q) == [i \in 1..Len(q) |-> [server |-> id, item |-> q[i]]]

\* Replies handed to Connection::send, with whether the send succeeded
Posted(id, q, ok) == [i \in 1..Len(q) |-> [server |-> id, item |-> q[i], ok |-> ok]]

\* One handle_message call added to the record
Record(acc, id, done, env) ==
    [offered |-> Append(acc.offered, id),
     sent |-> acc.sent \o Posted(id, done.sent, env.send),
     invoked |-> acc.invoked \o Tagged(id, done.calls),
     fired |-> acc.fired \o Tagged(id, done.handlers),
     consumed |-> ~done.pass,
     panic |-> done.panic]

RECURSIVE offer_listeners(_, _, _, _, _)
\* for listener in listeners.iter_mut() { listener.handle_message(..) }
offer_listeners(ls, i, m, env, acc) ==
    IF i > Len(ls) \/ acc.panic THEN [acc EXCEPT !.consumed = FALSE]
    ELSE offer_listeners(ls, i + 1, m, env,
                         Record(acc, ListenerId(i), handle_message(ls[i], m, env), env))

RECURSIVE offer_servers(_, _, _, _, _)
\* servers.iter_mut().fold(Some(&mut message), |opt_m, (_, server)|
\*     opt_m.and_then(|m| server.handle_message(m)))
offer_servers(ss, order, m, env, acc) ==
    IF order = <<>> \/ acc.panic \/ acc.consumed THEN acc
    ELSE offer_servers(ss, Tail(order), m, env,
                       Record(acc, ServerId(Head(order)),
                              handle_message(ss[Head(order)], m, env), env))

\* Runner.servers visited in the order of registration
insertion_order(ss) == regOrder

\* The order in which Runner::run visits Runner.servers
iter_mut(ss) == SortedNames(DOMAIN ss)

\* The fold's body offering every message to the listeners
dispatch_to_all(ls, ss, m, env) ==
    offer_servers(ss, iter_mut(ss), m, env, offer_listeners(ls, 1, m, env, NoDispatch))

\* The body of the fold in Runner::run for one message
dispatch(ls, ss, m, env) ==
    LET heard == IF m.type = "Signal"
                 THEN offer_listeners(ls, 1, m, env, NoDispatch)
                 ELSE NoDispatch
    IN  offer_servers(ss, iter_mut(ss), m, env, heard)

\* _should_handle
_should_handle(m) == m.type \in {"MethodCall", "Signal"}

----------------------------------------------------------------------------
(* Inputs *)

BusNames == {"com.a", "com.b"}

P_a == <<"/", "a">>
P_b == <<"/", "b">>
P_ab == <<"/", "a", "/", "b">>

\* A path header with a trailing "/", which Message::path hands over as it
\* came
P_a_slash == <<"/", "a", "/">>

\* Paths the application registers objects at
ObjectPaths == {P_a, P_ab}

\* The root path, a path with a doubled "/" and one without the leading "/"
P_root == <<"/">>
P_double == <<"/", "/", "a">>
P_relative == <<"a">>

\* Paths the application hands to add_object, add_object_manager and
\* remove_object, well-formed or not
GivenPaths == ObjectPaths \cup {P_root, P_a_slash, P_double, P_relative, <<>>}

\* Path headers of inbound messages
MessagePaths == {P_a, P_b, P_ab}

Message(type, path, interface, member, body) ==
    [type |-> type, path |-> path, interface |-> interface, member |-> member,
     body |-> body]

\* Inbound method calls
Calls ==
    {Message("MethodCall", path, interface, member, body) :
        path \in {None} \cup {Some(p) : p \in MessagePaths},
        interface \in {None, Some(UserIfaceName), Some(PeerName), Some("com.example.Other")},
        member \in {None, Some("Echo"), Some("Ping")},
        body \in {<<>>, << StringValue("x"), IntValue >>, << StringValue("x") >>}}

\* The builder DBusObjectTree::insert finalizes for an object manager: the
\* empty builder with org.freedesktop.DBus.ObjectManager added
ManagerBuilder ==
    add_interface(NewBuilder, ObjectManagerName, DBusObjectManagerInterface).val

\* An inbound call of ObjectManager.GetManagedObjects
GetManagedObjects ==
    Message("MethodCall", Some(P_a), Some(ObjectManagerName),
            Some("GetManagedObjects"), <<>>)

\* Inbound calls whose path, interface and member are those of a Target that
\* handlers are connected to, or differ from it in the member
TargetCalls ==
    {Message("MethodCall", Some(P_a), Some(UserIfaceName), Some(member), <<>>) :
        member \in {"Changed", "Echo"}}

\* Targets the application connects handlers to
Targets ==
    {Target(UserIfaceName, P_a, "Changed"), Target(UserIfaceName, P_ab, "Changed")}

\* Inbound signals
Signals ==
    {Message("Signal", Some(t.object), Some(t.interface), Some(t.method), <<>>) :
        t \in Targets \cup {Target(UserIfaceName, P_b, "Changed"),
                            Target(UserIfaceName, P_a, "Removed"),
                            Target(UserIfaceName, P_a_slash, "Changed"),
                            Target("com.example.Other", P_ab, "Changed")}}
    \cup {Message("Signal", Some(P_a), None, Some("Changed"), <<>>)}

\* The signals that carry a Target handlers are connected to
TargetSignals ==
    {Message("Signal", Some(t.object), Some(t.interface), Some(t.method), <<>>) :
        t \in Targets}

\* Inbound messages that are neither calls nor signals
Others ==
    {Message("MethodReturn", None, None, None, <<>>),
     Message("Error", None, None, None, <<>>)}

\* What application callbacks return and whether Connection::send succeeds
UserResults ==
    {Ok(<< StringValue("y") >>), Ok(<< IntValue >>), Ok(<<>>),
     Err(ErrorMessage("com.example.Error.Failed", "failed"))}

Envs ==
    {[cb |-> cb, get |-> Ok(IntValue), set |-> Ok(<<>>), send |-> send] :
        cb \in UserResults, send \in BOOLEAN}

\* Signals run no method callback and send no reply: one environment stands
\* for all of them
SignalEnv == [cb |-> Ok(<<>>), get |-> Ok(IntValue), set |-> Ok(<<>>), send |-> TRUE]

\* Connection::request_name
RequestNameReplies ==
    {Ok("PrimaryOwner"), Ok("InQueue"), Ok("Exists"), Ok("AlreadyOwner"),
     Err("ErrorMessage")}

\* Connection::add_match
AddMatchResults == {Ok(""), Err("ErrorMessage")}

\* Value::Variant: its signature is "v" whatever it wraps
VariantValue(s) == [sig |-> <<"v">>, v |-> s]

\* Property::new_ro, Property::new_rw, Property::new_wo
Property(sig, access) == [signature |-> sig, access |-> access]

\* An interface of the application with properties only: three strings, one
\* of each access, and a read-write variant
PropsIfaceName == "com.example.Props"
PropsInterface ==
    InterfaceWith(<<>>, ("Ro" :> Property(<<"s">>, "RO")) @@
                        ("Rw" :> Property(<<"s">>, "RW")) @@
                        ("Wo" :> Property(<<"s">>, "WO")) @@
                        ("Var" :> Property(<<"v">>, "RW")))

\* Interfaces::new().add_interface("com.example.Props", ..)
PropsBuilder == (PropsIfaceName :> PropsInterface)

\* Names a caller gives for the interface and the property, and values it
\* gives to Set
CalledInterfaces == {PropsIfaceName, "com.example.Missing", IntrospectableName}
CalledProperties == {"Ro", "Rw", "Wo", "Var", "Nope"}
SetValues == {StringValue("x"), IntValue, VariantValue("x")}

\* Inbound calls of org.freedesktop.DBus.Properties
PropertyCalls ==
    {Message("MethodCall", Some(P_a), Some(PropertiesName), Some(member),
             << StringValue(i), StringValue(p) >>) :
        member \in {"Get", "Set"}, i \in CalledInterfaces, p \in CalledProperties}
    \cup
    {Message("MethodCall", Some(P_a), Some(PropertiesName), Some("Set"),
             << StringValue(i), StringValue(p), v >>) :
        i \in CalledInterfaces, p \in CalledProperties, v \in SetValues}
    \cup
    {Message("MethodCall", Some(P_a), Some(PropertiesName), Some("GetAll"),
             << StringValue(i) >>) : i \in CalledInterfaces}

\* What the application's getters and setters return and whether
\* Connection::send succeeds
PropertyEnvs ==
    {[cb |-> Ok(<<>>), get |-> get, set |-> set, send |-> send] :
        get \in {Ok(StringValue("v")), Ok(IntValue), Ok(VariantValue("v")),
                 Err(ErrorMessage("com.example.Error.Failed", "failed"))},
        set \in {Ok(<<>>), Err(ErrorMessage("com.example.Error.Failed", "failed"))},
        send \in BOOLEAN}

----------------------------------------------------------------------------
(* State machine *)

NoMessage == [origin |-> "none", msg |-> <<>>, map |-> <<>>]

Done(op, args, res) == [op |-> op, args |-> args, res |-> res]

\* The application holds no builder (none was made yet)
NoBuilder == [state |-> "none", map |-> <<>>]

Init ==
    /\ listeners = <<>>
    /\ servers = <<>>
    /\ regOrder = <<>>
    /\ nextHandler = 1
    /\ pc = "idle"
    /\ last = NoMessage
    /\ offered = <<>>
    /\ sent = <<>>
    /\ invoked = <<>>
    /\ fired = <<>>
    /\ consumed = FALSE
    /\ result = Done("new", <<>>, Ok(""))
    /\ ifaces = NoBuilder
    /\ leases = <<>>

\* A control operation leaves no dispatch record behind
ClearedRecord ==
    /\ last' = NoMessage
    /\ offered' = <<>>
    /\ sent' = <<>>
    /\ invoked' = <<>>
    /\ fired' = <<>>
    /\ consumed' = FALSE

\* The same for a step that calls neither request_name nor release_name
Cleared ==
    /\ ClearedRecord
    /\ leases' = <<>>

\* One call of Connection::request_name or Connection::release_name
NameCall(call, name) == [call |-> call, name |-> name]

\* Runner::add_listener
AddListener ==
    /\ pc = "idle"
    /\ Len(listeners) < MaxListeners
    /\ LET listener == new_listener("listener") IN
       /\ listeners' = Append(listeners, listener.val)
       /\ result' = Done("add_listener", <<>>, Ok(""))
    /\ Cleared
    /\ UNCHANGED <<servers, regOrder, nextHandler, pc, ifaces>>

\* add_server that asks for the name and stores the new Server whether or
\* not the Runner has one under the name
AddServer_replacing(name, request) ==
    /\ pc = "idle"
    /\ LET server == Server_new(name, request) IN
       /\ leases' = << NameCall("RequestName", name) >>
       /\ servers' = IF server.ok
                     THEN [n \in DOMAIN servers \cup {name} |->
                              IF n = name THEN server.val ELSE servers[n]]
                     ELSE servers
       /\ regOrder' = IF server.ok /\ name \notin DOMAIN servers
                      THEN Append(regOrder, name) ELSE regOrder
       /\ result' = Done("add_server", <<name, request>>,
                         IF server.ok THEN Ok("") ELSE server)
    /\ ClearedRecord
    /\ UNCHANGED <<listeners, nextHandler, pc, ifaces>>

\* Runner::add_server
AddServer(name, request) ==
    /\ pc = "idle"
    /\ IF name \in DOMAIN servers
       THEN /\ result' = Done("add_server", <<name>>, Err("ServerAlreadyRegistered"))
            /\ leases' = <<>>
            /\ UNCHANGED <<servers, regOrder>>
       ELSE LET server == Server_new(name, request) IN
            /\ leases' = << NameCall("RequestName", name) >>
            /\ IF server.ok
               THEN /\ servers' = servers @@ (name :> server.val)
                    /\ regOrder' = Append(regOrder, name)
                    /\ result' = Done("add_server", <<name, request>>, Ok(""))
               ELSE /\ result' = Done("add_server", <<name, request>>, server)
                    /\ UNCHANGED <<servers, regOrder>>
    /\ ClearedRecord
    /\ UNCHANGED <<listeners, nextHandler, pc, ifaces>>

\* Server::add_object on a named server of the Runner
AddObject(name, path, iface_map) ==
    /\ pc = "idle"
    /\ name \in DOMAIN servers
    /\ LET done == add_object(servers[name], path, iface_map) IN
       /\ servers' = [servers EXCEPT ![name] = done.server]
       /\ result' = Done("add_object", <<name, path>>, done.res)
       /\ pc' = IF done.panic THEN "panicked" ELSE pc
    /\ Cleared
    /\ UNCHANGED <<listeners, regOrder, nextHandler, ifaces>>

\* The servers of the Runner that the application holds a reference to
ServerIds ==
    {ListenerId(i) : i \in 1..Len(listeners)} \cup {ServerId(n) : n \in DOMAIN servers}

ServerAt(id) == IF id.kind = "listener" THEN listeners[id.ix] ELSE servers[id.name]

\* The Runner with the server at id replaced
Replaced(id, server) ==
    IF id.kind = "listener"
    THEN /\ listeners' = [listeners EXCEPT ![id.ix] = server]
         /\ UNCHANGED servers
    ELSE /\ servers' = [servers EXCEPT ![id.name] = server]
         /\ UNCHANGED listeners

\* Server::connect with a new closure
Connect(id, signal, add_match) ==
    /\ pc = "idle"
    /\ nextHandler <= MaxHandlers
    /\ id \in ServerIds
    /\ LET done == connect(ServerAt(id), signal, nextHandler, add_match) IN
       /\ Replaced(id, done.server)
       /\ nextHandler' = IF done.res.ok THEN nextHandler + 1 ELSE nextHandler
       /\ result' = Done("connect", <<id, signal>>, done.res)
    /\ Cleared
    /\ UNCHANGED <<regOrder, pc, ifaces>>

\* Server::connect_namespace with a new closure
ConnectNamespace(id, signal, add_match) ==
    /\ pc = "idle"
    /\ nextHandler <= MaxHandlers
    /\ id \in ServerIds
    /\ LET done == connect_namespace(ServerAt(id), signal, nextHandler, add_match) IN
       /\ Replaced(id, done.server)
       /\ nextHandler' = IF done.res.ok THEN nextHandler + 1 ELSE nextHandler
       /\ result' = Done("connect_namespace", <<id, signal>>, done.res)
    /\ Cleared
    /\ UNCHANGED <<regOrder, pc, ifaces>>

\* Runner::run is entered
RunStart ==
    /\ pc = "idle"
    /\ pc' = "running"
    /\ result' = Done("run", <<>>, Ok(""))
    /\ Cleared
    /\ UNCHANGED <<listeners, servers, regOrder, nextHandler, ifaces>>

\* What processing one message did becomes the record of the last message
Logged(origin, m, map, did, after) ==
    /\ last' = [origin |-> origin, msg |-> m, map |-> map]
    /\ offered' = did.offered
    /\ sent' = did.sent
    /\ invoked' = did.invoked
    /\ fired' = did.fired
    /\ consumed' = did.consumed
    /\ leases' = <<>>
    /\ pc' = IF did.panic THEN "panicked" ELSE after

\* Runner::run: Messages::next yields a call or a signal and the fold's body
\* processes it
Receive(m, env) ==
    /\ pc = "running"
    /\ _should_handle(m)
    /\ Logged("run", m, <<>>, dispatch(listeners, servers, m, env), "handled")
    /\ UNCHANGED <<listeners, servers, regOrder, nextHandler, result, ifaces>>

\* Runner::run: the fold asks Messages::next for the next message
Loop ==
    /\ pc = "handled"
    /\ pc' = "running"
    /\ Cleared
    /\ UNCHANGED <<listeners, servers, regOrder, nextHandler, result, ifaces>>

\* Runner::run: Messages::next yields None (the read failed, or the message
\* read is neither a call nor a signal) and run returns
RunEnd ==
    /\ pc = "running"
    /\ pc' = "idle"
    /\ result' = Done("run_end", <<>>, Ok(""))
    /\ Cleared
    /\ UNCHANGED <<listeners, servers, regOrder, nextHandler, ifaces>>

\* Runner::run: read_msg gives a message that is neither a call nor a signal;
\* Messages::next yields None for it, which ends the fold, and run returns
ReadOther(m) ==
    /\ pc = "running"
    /\ ~_should_handle(m)
    /\ pc' = "idle"
    /\ result' = Done("run_end", <<m>>, Ok(""))
    /\ Cleared
    /\ UNCHANGED <<listeners, servers, regOrder, nextHandler, ifaces>>

\* Interfaces::handle called on a registry of its own, as the test
\* empty_interface does
Handle(iface_map, m, env) ==
    /\ pc = "idle"
    /\ last = NoMessage
    /\ finalize(iface_map).ok
    /\ Logged("handle", m, finalize(iface_map).val,
              Record(NoDispatch, DirectId,
                     Forwarded(handle(finalize(iface_map).val, m, env)), env),
              "idle")
    /\ result' = Done("handle", <<>>, Ok(""))
    /\ UNCHANGED <<listeners, servers, regOrder, nextHandler, ifaces>>

\* Interfaces::new: the application starts a builder; one it held before is
\* dropped
NewInterfaces ==
    /\ pc = "idle"
    /\ ifaces.state /= "open"
    /\ ifaces' = [state |-> "open", map |-> NewBuilder]
    /\ result' = Done("new", <<>>, Ok(""))
    /\ Cleared
    /\ UNCHANGED <<listeners, servers, regOrder, nextHandler, pc>>

\* add_interface as it would be if the Interfaces that finalize returns had
\* the method too
AddInterface_finalized(name, iface) ==
    /\ pc = "idle"
    /\ ifaces.state \in {"open", "finalized"}
    /\ LET done == add_interface(ifaces.map, name, iface) IN
       /\ ifaces' = IF done.ok THEN [ifaces EXCEPT !.map = done.val]
                    ELSE [state |-> "dropped", map |-> ifaces.map]
       /\ result' = Done("add_interface", <<name>>,
                         IF done.ok THEN Ok("") ELSE done)
    /\ Cleared
    /\ UNCHANGED <<listeners, servers, regOrder, nextHandler, pc>>

\* InterfacesBuilder::add_interface on the builder the application holds.
\* The call takes the builder by value: Ok hands it back, Err drops it with
\* the map as the call left it
AddInterface(name, iface) ==
    /\ pc = "idle"
    /\ ifaces.state = "open"
    /\ LET done == add_interface(ifaces.map, name, iface) IN
       /\ ifaces' = IF done.ok THEN [state |-> "open", map |-> done.val]
                    ELSE [state |-> "dropped", map |-> ifaces.map]
       /\ result' = Done("add_interface", <<name>>,
                         IF done.ok THEN Ok("") ELSE done)
    /\ Cleared
    /\ UNCHANGED <<listeners, servers, regOrder, nextHandler, pc>>

\* InterfacesBuilder::finalize on the builder the application holds.  The
\* call takes the builder by value: Ok hands back the Interfaces, Err drops
\* the builder
Finalize ==
    /\ pc = "idle"
    /\ ifaces.state = "open"
    /\ LET done == finalize(ifaces.map) IN
       /\ ifaces' = IF done.ok THEN [state |-> "finalized", map |-> done.val]
                    ELSE [state |-> "dropped", map |-> finalize_reached(ifaces.map)]
       /\ result' = Done("finalize", <<>>,
                         IF done.ok THEN Ok("") ELSE done)
    /\ Cleared
    /\ UNCHANGED <<listeners, servers, regOrder, nextHandler, pc>>

\* Server::add_object_manager on a named server of the Runner
AddObjectManager(name, path, iface_map) ==
    /\ pc = "idle"
    /\ name \in DOMAIN servers
    /\ LET done == add_object_manager(servers[name], path, iface_map) IN
       /\ servers' = [servers EXCEPT ![name] = done.server]
       /\ result' = Done("add_object_manager", <<name, path, DOMAIN iface_map>>, done.res)
       /\ pc' = IF done.panic THEN "panicked" ELSE pc
    /\ Cleared
    /\ UNCHANGED <<listeners, regOrder, nextHandler, ifaces>>

\* What Connection::release_name can give: the three replies of the bus, or
\* an error of the call
ReleaseNameReplies ==
    {Ok("Released"), Ok("NonExistent"), Ok("NotOwner"), Err("InvalidReply")}

\* A drop that takes every answer of release_name for good
drop_tolerant(self, release) ==
    [released |-> IF self.can_handle THEN <<self.name>> ELSE <<>>, panic |-> FALSE]

\* Drop for DBusServer: the names release_name was called with, and whether
\* drop panicked; release is what release_name gives
drop(self, release) ==
    IF ~self.can_handle THEN [released |-> <<>>, panic |-> FALSE]
    ELSE [released |-> <<self.name>>,
          panic |-> IF release.ok
                    THEN CASE release.val = "Released" -> FALSE
                           [] release.val = "NonExistent" -> TRUE
                           [] release.val = "NotOwner" -> TRUE
                    ELSE FALSE]

RECURSIVE drop_in_place(_, _, _, _)
\* The Servers of a collection dropped one after the other: a panic of one
\* drop starts unwinding, during which the remaining ones are still
\* dropped; a second panic aborts the process
drop_in_place(dropped, releases, released, panics) ==
    IF dropped = <<>> \/ panics = 2 THEN [released |-> released, panics |-> panics]
    ELSE LET done == drop(Head(dropped), releases[Head(dropped).name]) IN
         drop_in_place(Tail(dropped), releases, released \o done.released,
                       IF done.panic THEN panics + 1 ELSE panics)

\* Runner::remove_server: the entry is taken out of the map and the Server
\* dropped
RemoveServer(name, release) ==
    /\ pc = "idle"
    /\ IF name \notin DOMAIN servers
       THEN /\ result' = Done("remove_server", <<name>>, Err("NoSuchServer"))
            /\ leases' = <<>>
            /\ UNCHANGED <<servers, regOrder, pc>>
       ELSE LET done == drop(servers[name], release) IN
            /\ servers' = IF DOMAIN servers = {name} THEN <<>>
                          ELSE [n \in DOMAIN servers \ {name} |-> servers[n]]
            /\ regOrder' = SelectSeq(regOrder, LAMBDA n : n /= name)
            /\ result' = Done("remove_server", <<name, release, done.released>>, Ok(""))
            /\ leases' = [i \in 1..Len(done.released) |->
                              NameCall("ReleaseName", done.released[i])]
            /\ pc' = IF done.panic THEN "panicked" ELSE pc
    /\ ClearedRecord
    /\ UNCHANGED <<listeners, nextHandler, ifaces>>

\* The Runner goes out of scope: its listeners and then its servers, in the
\* order of their names, are dropped; releases is what release_name gives
\* for each name; the result tells what release_name was called with, how
\* many listeners were dropped and which servers
DropRunner(releases) ==
    /\ pc = "idle"
    /\ LET named == [i \in 1..Len(SortedNames(DOMAIN servers)) |->
                        servers[SortedNames(DOMAIN servers)[i]]]
           done == drop_in_place(listeners \o named,
                                 [n \in {l.name : l \in Range(listeners)} |->
                                     Ok("Released")] @@ releases, <<>>, 0)
       IN  /\ result' = Done("drop", <<releases, done.released, Len(listeners),
                                    DOMAIN servers>>, Ok(""))
           /\ leases' = [i \in 1..Len(done.released) |->
                             NameCall("ReleaseName", done.released[i])]
           /\ pc' = IF done.panics > 0 THEN "panicked" ELSE "dropped"
    /\ listeners' = <<>>
    /\ servers' = <<>>
    /\ regOrder' = <<>>
    /\ ClearedRecord
    /\ UNCHANGED <<nextHandler, ifaces>>

\* The sequences of at most two elements of a set
Seq2(S) == {<<>>} \cup {<<x>> : x \in S} \cup {<<x, y>> : x \in S, y \in S}

\* Names of path segments, and the depth down to which nodes are made
SegmentNames == {"a", "b"}
MaxDepth == 2

\* DBusObjectTree::find_or_create_object called on its own on the node at
\* of a named server's tree, as a cursor that holds the node calls it
FindOrCreateObject(name, at, child) ==
    /\ pc = "idle"
    /\ name \in DOMAIN servers
    /\ at \in DOMAIN servers[name].objects
    /\ Len(at) < MaxDepth
    /\ servers' = [servers EXCEPT
                      ![name].objects = find_or_create_object(@, at, child)]
    /\ result' = Done("DBusObjectTree::find_or_create_object", <<name, at, child>>, Ok(""))
    /\ Cleared
    /\ UNCHANGED <<listeners, regOrder, nextHandler, pc, ifaces>>

\* DBusObjectTree::remove_object called on its own on the node at
TreeRemoveObject(name, at, child) ==
    /\ pc = "idle"
    /\ name \in DOMAIN servers
    /\ at \in DOMAIN servers[name].objects
    /\ LET done == remove_object(servers[name].objects, at, child) IN
       /\ servers' = [servers EXCEPT ![name].objects = done.tree]
       /\ result' = Done("DBusObjectTree::remove_object", <<name, at, child>>,
                         IF IsSome(done.object) THEN Ok("") ELSE Err("None"))
    /\ Cleared
    /\ UNCHANGED <<listeners, regOrder, nextHandler, pc, ifaces>>

\* Server::remove_object on a named server of the Runner
RemoveObject(name, path) ==
    /\ pc = "idle"
    /\ name \in DOMAIN servers
    /\ LET done == Server_remove_object(servers[name], path) IN
       /\ servers' = [servers EXCEPT ![name] = done.server]
       /\ result' = Done("remove_object", <<name, path>>, done.res)
       /\ pc' = IF done.panic THEN "panicked" ELSE pc
    /\ Cleared
    /\ UNCHANGED <<listeners, regOrder, nextHandler, ifaces>>

\* The three operations on a server's objects
ObjectOperations == {"add_object", "add_object_manager", "remove_object"}

\* Server::add_object, Server::add_object_manager or Server::remove_object
\* on the i-th listener of the Runner
ListenerObject(i, op, path, iface_map) ==
    /\ pc = "idle"
    /\ i \in 1..Len(listeners)
    /\ LET done == CASE op = "add_object" -> add_object(listeners[i], path, iface_map)
                     [] op = "add_object_manager" ->
                            add_object_manager(listeners[i], path, iface_map)
                     [] op = "remove_object" -> Server_remove_object(listeners[i], path)
       IN
       /\ listeners' = [listeners EXCEPT ![i] = done.server]
       /\ result' = Done(op, <<listeners[i].name, path>>, done.res)
       /\ pc' = IF done.panic THEN "panicked" ELSE pc
    /\ Cleared
    /\ UNCHANGED <<servers, regOrder, nextHandler, ifaces>>

\* A property operation called on an Interface itself: what was asked and
\* what came of it become the record
PropertyCalled(origin, iface, call, out) ==
    /\ last' = [origin |-> origin, msg |-> call, map |-> iface]
    /\ offered' = <<>>
    /\ sent' = <<>>
    /\ invoked' = Tagged(DirectId, out.calls)
    /\ fired' = <<>>
    /\ consumed' = FALSE
    /\ leases' = <<>>
    /\ pc' = IF out.panic THEN "panicked" ELSE "idle"
    /\ result' = Done(origin, <<>>, IF out.panic THEN Err("panicked") ELSE out.res)

\* Interface::get_property_value called by the application
GetPropertyValue(iface, name, env) ==
    /\ pc = "idle"
    /\ last = NoMessage
    /\ PropertyCalled("get_property_value", iface,
                      [name |-> name, value |-> None, handler |-> env.get],
                      get_property_value(iface, name, env))
    /\ UNCHANGED <<listeners, servers, regOrder, nextHandler, ifaces>>

\* Interface::set_property_value called by the application
SetPropertyValue(iface, name, value, env) ==
    /\ pc = "idle"
    /\ last = NoMessage
    /\ PropertyCalled("set_property_value", iface,
                      [name |-> name, value |-> Some(value), handler |-> env.set],
                      set_property_value(iface, name, value, env))
    /\ UNCHANGED <<listeners, servers, regOrder, nextHandler, ifaces>>

\* Names and interfaces the application gives to add_interface
InterfaceNames == {UserIfaceName, PeerName, PropertiesName, IntrospectableName}
UserInterfaces == {UserInterface, Interface(<<>>)}

\* Every operation
Next ==
    \/ AddListener
    \/ \E name \in BusNames, request \in RequestNameReplies : AddServer(name, request)
    \/ \E name \in BusNames, path \in ObjectPaths, iface_map \in Builders :
          AddObject(name, path, iface_map)
    \/ \E id \in ServerIds, signal \in Targets, add_match \in AddMatchResults :
          Connect(id, signal, add_match)
    \/ \E id \in ServerIds, signal \in Targets, add_match \in AddMatchResults :
          ConnectNamespace(id, signal, add_match)
    \/ RunStart
    \/ \E m \in Calls \cup Signals, env \in Envs : Receive(m, env)
    \/ Loop
    \/ RunEnd
    \/ \E m \in Others : ReadOther(m)
    \/ \E iface_map \in Builders, m \in Calls, env \in Envs : Handle(iface_map, m, env)
    \/ NewInterfaces
    \/ \E name \in InterfaceNames, iface \in UserInterfaces : AddInterface(name, iface)
    \/ Finalize
    \/ \E name \in BusNames, path \in ObjectPaths, iface_map \in Builders :
          AddObjectManager(name, path, iface_map)
    \/ \E m \in PropertyCalls, env \in PropertyEnvs : Handle(PropsBuilder, m, env)
    \/ \E name \in CalledProperties, env \in PropertyEnvs :
          GetPropertyValue(PropsInterface, name, env)
    \/ \E name \in CalledProperties, value \in SetValues, env \in PropertyEnvs :
          SetPropertyValue(PropsInterface, name, value, env)
    \/ \E name \in BusNames, path \in ObjectPaths : RemoveObject(name, path)
    \/ \E name \in BusNames, release \in ReleaseNameReplies : RemoveServer(name, release)
    \/ \E releases \in [BusNames -> ReleaseNameReplies] : DropRunner(releases)
    \/ \E i \in 1..MaxListeners, op \in ObjectOperations, path \in ObjectPaths :
          ListenerObject(i, op, path, UserBuilder)

Spec == Init /\ [][Next]_vars

\* Interfaces::handle on its own
NextHandle ==
    \/ \E iface_map \in Builders, m \in Calls, env \in Envs : Handle(iface_map, m, env)
    \/ \E env \in Envs : Handle(ManagerBuilder, GetManagedObjects, env)

SpecHandle == Init /\ [][NextHandle]_vars

\* A Runner of named servers with objects, receiving method calls
NextCalls ==
    \/ \E name \in BusNames : AddServer(name, Ok("PrimaryOwner"))
    \/ \E name \in BusNames, path \in ObjectPaths : AddObject(name, path, UserBuilder)
    \/ RunStart
    \/ \E m \in Calls, env \in Envs : Receive(m, env)
    \/ Loop
    \/ RunEnd

SpecCalls == Init /\ [][NextCalls]_vars

\* A Runner of listeners and named servers with signal handlers, receiving
\* signals
NextSignals ==
    \/ AddListener
    \/ \E name \in BusNames : AddServer(name, Ok("PrimaryOwner"))
    \/ \E id \in ServerIds, signal \in Targets : Connect(id, signal, Ok(""))
    \/ \E id \in ServerIds, signal \in Targets : ConnectNamespace(id, signal, Ok(""))
    \/ RunStart
    \/ \E m \in Signals : Receive(m, SignalEnv)
    \/ Loop
    \/ RunEnd

SpecSignals == Init /\ [][NextSignals]_vars

\* An application that builds registries and places them on a server as
\* object managers
NextRegistry ==
    \/ NewInterfaces
    \/ \E name \in InterfaceNames, iface \in UserInterfaces : AddInterface(name, iface)
    \/ Finalize
    \/ AddServer("com.a", Ok("PrimaryOwner"))
    \/ \E path \in ObjectPaths, iface_map \in Builders \cup {ManagerBuilder} :
          AddObjectManager("com.a", path, iface_map)

SpecRegistry == Init /\ [][NextRegistry]_vars

\* Registries handling calls on their own: an interface with properties,
\* asked through org.freedesktop.DBus.Properties and through the Interface's
\* own operations, and the application's interface with a method
NextProperties ==
    \/ \E m \in PropertyCalls, env \in PropertyEnvs : Handle(PropsBuilder, m, env)
    \/ \E m \in Calls, env \in Envs : Handle(UserBuilder, m, env)
    \/ \E name \in CalledProperties, env \in PropertyEnvs :
          GetPropertyValue(PropsInterface, name, env)
    \/ \E name \in CalledProperties, value \in SetValues, env \in PropertyEnvs :
          SetPropertyValue(PropsInterface, name, value, env)

SpecProperties == Init /\ [][NextProperties]_vars

\* An application that places and removes objects, at well-formed paths and
\* others, on the named servers and the listeners of a Runner
NextTree ==
    \/ AddListener
    \/ \E name \in BusNames : AddServer(name, Ok("PrimaryOwner"))
    \/ \E name \in BusNames, path \in GivenPaths : AddObject(name, path, UserBuilder)
    \/ \E name \in BusNames, path \in GivenPaths :
          AddObjectManager(name, path, UserBuilder)
    \/ \E name \in BusNames, path \in GivenPaths : RemoveObject(name, path)
    \/ \E i \in 1..MaxListeners, op \in ObjectOperations, path \in GivenPaths :
          ListenerObject(i, op, path, UserBuilder)

SpecTree == Init /\ [][NextTree]_vars

\* A Runner whose servers ask the bus for their names and give them back
\* when they are removed or the Runner is dropped
NextNames ==
    \/ AddListener
    \/ \E name \in BusNames, request \in RequestNameReplies : AddServer(name, request)
    \/ \E name \in BusNames, release \in ReleaseNameReplies : RemoveServer(name, release)
    \/ \E releases \in [BusNames -> ReleaseNameReplies] : DropRunner(releases)

SpecNames == Init /\ [][NextNames]_vars

\* A Runner of listeners and named servers with signal handlers, receiving
\* method calls
NextDispatch ==
    \/ AddListener
    \/ \E name \in BusNames : AddServer(name, Ok("PrimaryOwner"))
    \/ \E id \in ServerIds : Connect(id, Target(UserIfaceName, P_a, "Changed"), Ok(""))
    \/ \E id \in ServerIds :
          ConnectNamespace(id, Target(UserIfaceName, P_a, "Changed"), Ok(""))
    \/ RunStart
    \/ \E m \in TargetCalls, env \in Envs : Receive(m, env)
    \/ Loop
    \/ RunEnd

SpecDispatch == Init /\ [][NextDispatch]_vars

\* A Runner of listeners and named servers reading every type of message
NextLoop ==
    \/ AddListener
    \/ \E name \in BusNames : AddServer(name, Ok("PrimaryOwner"))
    \/ RunStart
    \/ \E m \in TargetCalls \cup Signals, env \in Envs : Receive(m, env)
    \/ \E m \in Others : ReadOther(m)
    \/ Loop
    \/ RunEnd

SpecLoop == Init /\ [][NextLoop]_vars

\* A Runner of listeners and named servers that connect handlers over a
\* transport whose add_match can fail, receiving signals
NextConnect ==
    \/ AddListener
    \/ AddServer("com.a", Ok("PrimaryOwner"))
    \/ \E id \in ServerIds, signal \in Targets, add_match \in AddMatchResults :
          Connect(id, signal, add_match)
    \/ \E id \in ServerIds, signal \in Targets, add_match \in AddMatchResults :
          ConnectNamespace(id, signal, add_match)
    \/ RunStart
    \/ \E m \in TargetSignals : Receive(m, SignalEnv)
    \/ Loop
    \/ RunEnd

SpecConnect == Init /\ [][NextConnect]_vars

\* The bus names of a Runner with three named servers
LeaseNames == BusNames \cup {"com.c"}

\* A Runner of up to three named servers that ask the bus for their names and
\* give them back when they are removed or the Runner is dropped
NextLease ==
    \/ AddListener
    \/ \E name \in LeaseNames, request \in RequestNameReplies : AddServer(name, request)
    \/ \E name \in LeaseNames, release \in ReleaseNameReplies : RemoveServer(name, release)
    \/ \E releases \in [LeaseNames -> ReleaseNameReplies] : DropRunner(releases)

SpecLease == Init /\ [][NextLease]_vars

\* The operations of a tree node on their own: children are made and
\* removed under the nodes of one server's tree
NextNodes ==
    \/ AddServer("com.a", Ok("PrimaryOwner"))
    \/ \E at \in Seq2(SegmentNames), child \in SegmentNames :
          FindOrCreateObject("com.a", at, child)
    \/ \E at \in Seq2(SegmentNames), child \in SegmentNames :
          TreeRemoveObject("com.a", at, child)

SpecNodes == Init /\ [][NextNodes]_vars

----------------------------------------------------------------------------
(* What the record of the last message says *)

\* Runner::run has just processed a method call / a signal
RunCall == last.origin = "run" /\ last.msg.type = "MethodCall"
RunSignal == last.origin = "run" /\ last.msg.type = "Signal"

\* Interfaces::handle has just been called on a registry of its own
Handled_direct == last.origin = "handle"

\* Named server n has an Object registered at path (add_object succeeded)
ObjectAt(n, path) ==
    \E k \in DOMAIN servers[n].objects :
        /\ IsSome(servers[n].objects[k].object)
        /\ Unwrap(servers[n].objects[k].object).name = path

\* The finalized registry of the Object that server n has at path
RegistryAt(n, path) ==
    LET k == CHOOSE c \in DOMAIN servers[n].objects :
                 /\ IsSome(servers[n].objects[c].object)
                 /\ Unwrap(servers[n].objects[c].object).name = path
    IN  Unwrap(servers[n].objects[k].object).interfaces

\* The add_object last called on a named server returned, and the server has
\* the Object at the path: it was placed by this call or, when this call
\* answered PathAlreadyRegistered, by an earlier one
Registered ==
    result.op = "add_object"
    => /\ result.res.ok \/ result.res.err = "PathAlreadyRegistered"
       /\ ObjectAt(result.args[1], result.args[2])

\* The call names an interface and a method that the registry holds
Resolves(map, msg) ==
    /\ IsSome(msg.interface)
    /\ IsSome(msg.member)
    /\ Unwrap(msg.interface) \in DOMAIN map
    /\ Unwrap(msg.member) \in DOMAIN map[Unwrap(msg.interface)].methods

\* The method a resolving call names
MethodOf(map, msg) == map[Unwrap(msg.interface)].methods[Unwrap(msg.member)]

\* The replies a server handed to Connection::send
SentBy(id) == SelectSeq(sent, LAMBDA e : e.server = id)

\* How often signal handler h ran
TimesFired(h) == Len(SelectSeq(fired, LAMBDA e : e.item = h))

\* The handlers, of the set hs, that server id ran, in the order it ran them
FiredOf(id, hs) == SelectSeq(fired, LAMBDA e : e.server = id /\ e.item \in hs)

\* The named servers whose bus name sorts before n
NamesBefore(n) == {o \in DOMAIN servers : StrLess(o, n)}

----------------------------------------------------------------------------
(* Claims *)

\* C1: add_object of a path gives a named server an Object there; when a
\* named server has an Object at path P whose registry holds interface I
\* with method M, a MethodCall for (P, I, M) with the declared in-signature
\* invokes M's callback exactly once and sends exactly one MethodReturn
\* whose body has M's declared out-signature.
C1_CallReachesCallback ==
    /\ Registered
    /\ \A n \in DOMAIN servers :
        (/\ RunCall
         /\ IsSome(last.msg.path)
         /\ ObjectAt(n, Unwrap(last.msg.path))
         /\ Resolves(RegistryAt(n, Unwrap(last.msg.path)), last.msg)
         /\ _signature(MethodOf(RegistryAt(n, Unwrap(last.msg.path)), last.msg).in_args)
              = _msg_signature(last.msg))
        => /\ Len(invoked) = 1
           /\ invoked[1].item.kind = "method"
           /\ invoked[1].item.interface = Unwrap(last.msg.interface)
           /\ invoked[1].item.name = Unwrap(last.msg.member)
           /\ Len(sent) = 1
           /\ sent[1].item.type = "MethodReturn"
           /\ _msg_signature(sent[1].item)
                = _signature(MethodOf(RegistryAt(n, Unwrap(last.msg.path)),
                                      last.msg).out_args)

\* C2: Interfaces::handle on a call that resolves to a registered
\* (interface, method) but whose body signature differs from the method's
\* declared in-signature sends one InvalidArgs error reply and invokes no
\* callback.
C2_InvalidArgs ==
    (/\ Handled_direct
     /\ Resolves(last.map, last.msg)
     /\ _signature(MethodOf(last.map, last.msg).in_args) /= _msg_signature(last.msg))
    => /\ Len(sent) = 1
       /\ sent[1].item.type = "Error"
       /\ sent[1].item.name = ErrInvalidArgs
       /\ invoked = <<>>

\* C2's case: Echo(s, i) of the application's interface called with a body
\* of signature "s"
C2_Witness ==
    /\ Handled_direct
    /\ Resolves(last.map, last.msg)
    /\ MethodOf(last.map, last.msg).cb = "user"
    /\ _msg_signature(last.msg) = <<"s">>
    /\ Len(sent) = 1
    /\ sent[1].item.name = ErrInvalidArgs

\* C3: Interfaces::handle on a call naming an interface absent from the
\* registry sends an UnknownInterface error reply, on a call naming a present
\* interface but an absent method an UnknownMethod error reply, and in
\* neither case invokes a callback.
C3_UnknownNames ==
    (/\ Handled_direct
     /\ IsSome(last.msg.interface)
     /\ IsSome(last.msg.member)
     /\ ~Resolves(last.map, last.msg))
    => /\ Len(sent) = 1
       /\ sent[1].item.type = "Error"
       /\ sent[1].item.name =
            IF Unwrap(last.msg.interface) \in DOMAIN last.map
            THEN ErrUnknownMethod ELSE ErrUnknownInterface
       /\ invoked = <<>>

\* C4: a server offered a MethodCall whose path has no registered Object in
\* its tree sends exactly one UnknownObject error reply and consumes the
\* call, so no later server is offered it.
C4_UnknownObject ==
    \A i \in 1..Len(offered) :
        (/\ RunCall
         /\ IsSome(last.msg.path)
         /\ ~ObjectAt(offered[i].name, Unwrap(last.msg.path)))
        => /\ Len(SentBy(offered[i])) = 1
           /\ SentBy(offered[i])[1].item.type = "Error"
           /\ SentBy(offered[i])[1].item.name = ErrUnknownObject
           /\ consumed
           /\ i = Len(offered)

\* C4's case: two named servers, neither has the call's path; the first one
\* offered answered and the second was not offered the call
C4_Witness ==
    /\ RunCall
    /\ IsSome(last.msg.path)
    /\ Cardinality(DOMAIN servers) = 2
    /\ \A n \in DOMAIN servers : ~ObjectAt(n, Unwrap(last.msg.path))
    /\ Len(offered) = 1
    /\ Len(sent) = 1
    /\ sent[1].item.name = ErrUnknownObject
    /\ consumed

\* C5: with several named servers, one of which was given an Object by
\* add_object, a MethodCall whose path is registered only in server S is
\* dispatched by S: the servers offered before S neither reply nor consume,
\* S is the last one offered, and S's Object answers.
C5_DispatchedByOwner ==
    /\ Cardinality(DOMAIN servers) >= 2 => Registered
    /\ \A n \in DOMAIN servers :
        (/\ RunCall
         /\ IsSome(last.msg.path)
         /\ Cardinality(DOMAIN servers) >= 2
         /\ ObjectAt(n, Unwrap(last.msg.path))
         /\ \A o \in DOMAIN servers \ {n} : ~ObjectAt(o, Unwrap(last.msg.path)))
        => /\ offered /= <<>>
           /\ offered[Len(offered)] = ServerId(n)
           /\ \A i \in 1..Len(sent) :
                 /\ sent[i].server = ServerId(n)
                 /\ sent[i].item.name /= ErrUnknownObject

\* C6 as the specification states it: a MethodCall is offered to the named
\* servers in the order in which add_server registered them.
C6_RegistrationOrder ==
    RunCall =>
        /\ Len(offered) <= Len(regOrder)
        /\ \A i \in 1..Len(offered) : offered[i] = ServerId(regOrder[i])

\* C6: a MethodCall is offered to the named servers in ascending order of
\* their bus names (the order of Runner.servers, a BTreeMap keyed by name),
\* whatever the order of registration: the i-th server offered is the one
\* with i - 1 names before it.
C6_NameOrder ==
    RunCall =>
        \A i \in 1..Len(offered) :
            /\ offered[i].kind = "server"
            /\ offered[i].name \in DOMAIN servers
            /\ Cardinality(NamesBefore(offered[i].name)) = i - 1

\* C6's case: com.b was registered before com.a and the call was offered to
\* com.a first
C6_Witness ==
    /\ RunCall
    /\ regOrder = <<"com.b", "com.a">>
    /\ offered /= <<>>
    /\ offered[1] = ServerId("com.a")

\* C7 as the specification states it: when no named server's tree contains
\* the call's path, no reply of any kind is sent.
C7_NoReply ==
    (/\ RunCall
     /\ IsSome(last.msg.path)
     /\ \A n \in DOMAIN servers : ~ObjectAt(n, Unwrap(last.msg.path)))
    => sent = <<>>

\* C7: when no named server's tree contains the call's path, no reply is
\* sent only if the Runner has no named server; otherwise the first named
\* server in bus-name order sends exactly one UnknownObject error reply and
\* the call is consumed.
C7_FirstServerReplies ==
    (/\ RunCall
     /\ IsSome(last.msg.path)
     /\ \A n \in DOMAIN servers : ~ObjectAt(n, Unwrap(last.msg.path)))
    => IF DOMAIN servers = {}
       THEN sent = <<>> /\ ~consumed
       ELSE /\ Len(sent) = 1
            /\ sent[1].item.type = "Error"
            /\ sent[1].item.name = ErrUnknownObject
            /\ NamesBefore(sent[1].server.name) = {}
            /\ consumed

\* C7's case: a call to /b, where no server has an Object, was answered
C7_Witness ==
    /\ RunCall
    /\ last.msg.path = Some(P_b)
    /\ DOMAIN servers /= {}
    /\ Len(sent) = 1
    /\ sent[1].item.name = ErrUnknownObject

\* C8: every inbound Signal is passed to every listener, in the order of
\* Runner.listeners, and then to every named server; none of them consumes
\* it and no reply is sent for it.
C8_SignalFanOut ==
    RunSignal =>
        /\ Len(offered) = Len(listeners) + Cardinality(DOMAIN servers)
        /\ \A i \in 1..Len(listeners) : offered[i] = ListenerId(i)
        /\ \A n \in DOMAIN servers :
              \E i \in (Len(listeners) + 1)..Len(offered) : offered[i] = ServerId(n)
        /\ ~consumed
        /\ sent = <<>>

\* C8's case: two listeners and two named servers, one of the first ones
\* offered ran a handler, and all four were offered the signal
C8_Witness ==
    /\ RunSignal
    /\ Len(listeners) = 2
    /\ Cardinality(DOMAIN servers) = 2
    /\ fired /= <<>>
    /\ fired[1].server = ListenerId(1)
    /\ Len(offered) = 4

\* C9: a handler connected under exact Target T on a listener or named
\* server runs exactly once for a Signal whose (interface, path, member) is
\* T and does not run for a signal whose triple differs.
C9_ExactOnce ==
    RunSignal =>
        \A id \in ServerIds :
            \A t \in DOMAIN ServerAt(id).signals :
                \A k \in 1..Len(ServerAt(id).signals[t]) :
                    TimesFired(ServerAt(id).signals[t][k])
                        = IF Target_extract(last.msg) = Some(t) THEN 1 ELSE 0

\* C9's case: two listeners connected to the same Target each ran their
\* handler once for one matching signal
C9_Witness ==
    /\ RunSignal
    /\ Len(listeners) = 2
    /\ IsSome(Target_extract(last.msg))
    /\ \A i \in 1..2 : Unwrap(Target_extract(last.msg)) \in DOMAIN listeners[i].signals
    /\ Len(fired) = 2
    /\ fired[1].server = ListenerId(1)
    /\ fired[2].server = ListenerId(2)
    /\ fired[1].item /= fired[2].item

\* C10: the handlers connected under one exact Target on one server all run
\* for a matching signal, in the order in which connect registered them
\* (handlers are numbered in the order of registration).
C10_RegistrationOrder ==
    RunSignal =>
        \A id \in ServerIds :
            \A t \in DOMAIN ServerAt(id).signals :
                Target_extract(last.msg) = Some(t) =>
                    LET hs == Range(ServerAt(id).signals[t])
                        ran == FiredOf(id, hs)
                    IN  /\ {ran[i].item : i \in 1..Len(ran)} = hs
                        /\ \A i, j \in 1..Len(ran) : i < j => ran[i].item < ran[j].item

\* C10's case: one server with two handlers under the Target of the signal
C10_Witness ==
    /\ RunSignal
    /\ IsSome(Target_extract(last.msg))
    /\ \E id \in ServerIds :
          /\ Unwrap(Target_extract(last.msg)) \in DOMAIN ServerAt(id).signals
          /\ Len(ServerAt(id).signals[Unwrap(Target_extract(last.msg))]) = 2
          /\ Len(FiredOf(id, {1, 2})) = 2

\* Target t lies below namespace n: same interface and method, and
\* t.object = n.object + "/" + suffix with a suffix of at least `least`
\* characters
Below(n, t, least) ==
    /\ n.interface = t.interface
    /\ n.method = t.method
    /\ Len(t.object) >= Len(n.object) + 1 + least
    /\ \A i \in 1..Len(n.object) : t.object[i] = n.object[i]
    /\ t.object[Len(n.object) + 1] = "/"

\* Every handler connected with connect_namespace ran once if the signal's
\* target lies below its namespace (suffix of at least `least` characters)
\* and did not run otherwise
NamespaceFires(least) ==
    \A id \in ServerIds :
        \A n \in DOMAIN ServerAt(id).namespace_signals :
            \A k \in 1..Len(ServerAt(id).namespace_signals[n]) :
                TimesFired(ServerAt(id).namespace_signals[n][k])
                    = IF Target_extract(last.msg) = None THEN 0
                      ELSE IF Below(n, Unwrap(Target_extract(last.msg)), least)
                      THEN 1 ELSE 0

\* C11 as the specification states it: a handler connected with
\* connect_namespace under N runs for a signal with target T exactly when
\* interface and method agree and T.object = N.object + "/" + suffix for a
\* nonempty suffix.
C11_NonemptySuffix == RunSignal => NamespaceFires(1)

\* C11: a handler connected with connect_namespace under N runs for a signal
\* with target T exactly when interface and method agree and T.object
\* starts with N.object + "/"; the suffix after the "/" may be empty, and
\* T.object = N.object does not match.
C11_NamespacePrefix == RunSignal => NamespaceFires(0)

\* C11's case: a handler under namespace /a ran for a signal from /a/b
C11_Witness ==
    /\ RunSignal
    /\ last.msg.path = Some(P_ab)
    /\ \E id \in ServerIds :
          /\ Target(UserIfaceName, P_a, "Changed")
                \in DOMAIN ServerAt(id).namespace_signals
          /\ TimesFired(ServerAt(id).namespace_signals[
                            Target(UserIfaceName, P_a, "Changed")][1]) = 1

----------------------------------------------------------------------------
(* The builder of a registry *)

\* The step is an add_interface of a name the builder already holds
AddsTaken ==
    /\ ifaces.state = "open"
    /\ result'.op = "add_interface"
    /\ result'.args[1] \in DOMAIN ifaces.map

\* C12: add_interface with a name the builder already holds fails with
\* InterfaceAlreadyRegistered for that name, and the interface registered
\* under the name before is still the one the map holds
C12_DuplicateRejected ==
    [][AddsTaken =>
          /\ ~result'.res.ok
          /\ result'.res.err = "InterfaceAlreadyRegistered"
          /\ DOMAIN ifaces'.map = DOMAIN ifaces.map
          /\ ifaces'.map[result'.args[1]] = ifaces.map[result'.args[1]]]_vars

C12_Witness ==
    /\ result.op = "add_interface"
    /\ result.args[1] = UserIfaceName
    /\ ~result.res.ok
    /\ result.res.err = "InterfaceAlreadyRegistered"
    /\ ifaces.state = "dropped"
    /\ ifaces.map[UserIfaceName] = UserInterface

\* A further add_interface, or a second finalize, answered InterfacesFinalized
FurtherRejected ==
    /\ \/ \E name \in InterfaceNames, iface \in UserInterfaces : AddInterface(name, iface)
       \/ Finalize
    /\ ~result'.res.ok
    /\ result'.res.err = "InterfacesFinalized"

StandardNames == {PeerName, PropertiesName, IntrospectableName}

\* The step finalizes a builder of user interfaces only: the registry holds
\* them as they were and the three standard interfaces besides
FinalizeAdds ==
    (/\ ifaces.state = "open"
     /\ result'.op = "finalize"
     /\ DOMAIN ifaces.map \cap StandardNames = {})
    => /\ result'.res.ok
       /\ ifaces'.state = "finalized"
       /\ DOMAIN ifaces'.map = DOMAIN ifaces.map \cup StandardNames
       /\ Cardinality(DOMAIN ifaces'.map) = Cardinality(DOMAIN ifaces.map) + 3
       /\ \A n \in DOMAIN ifaces.map : ifaces'.map[n] = ifaces.map[n]

\* The object an add_object_manager placed has the builder's interfaces, the
\* three standard ones and ObjectManager
ManagerExposed ==
    (/\ result.op = "add_object_manager"
     /\ result.args[3] \cap (StandardNames \cup {ObjectManagerName}) = {})
    => /\ result.res.ok \/ result.res.err = "PathAlreadyRegistered"
       /\ result.res.ok
          => DOMAIN RegistryAt(result.args[1], result.args[2])
                = result.args[3] \cup StandardNames \cup {ObjectManagerName}
       /\ ObjectAt(result.args[1], result.args[2])

\* C14: finalizing a builder of n user interfaces gives a registry of those
\* and Peer, Properties and Introspectable, n + 3 in all (3 for the empty
\* builder); an object placed by add_object_manager has ObjectManager as one
\* more
C14_StandardInterfaces == [][FinalizeAdds /\ ManagerExposed']_vars

----------------------------------------------------------------------------
(* Properties *)

\* Interfaces::handle has just been given a call of member of
\* org.freedesktop.DBus.Properties with a body of n values
PropertiesCall(member, n) ==
    /\ Handled_direct
    /\ last.msg.interface = Some(PropertiesName)
    /\ last.msg.member = Some(member)
    /\ Len(last.msg.body) = n

\* The interface and the property the body of the call names
AskedInterface == last.msg.body[1].v
AskedProperty == last.msg.body[2].v

\* The body names an interface of the registry and a property of it
AsksKnown ==
    /\ AskedInterface \in DOMAIN last.map
    /\ AskedProperty \in DOMAIN last.map[AskedInterface].properties

\* The property the body names
PropertyAsked == last.map[AskedInterface].properties[AskedProperty]

\* Exactly one reply was sent, an Error of the given name
RepliedError(name) ==
    /\ Len(sent) = 1
    /\ sent[1].item.type = "Error"
    /\ sent[1].item.name = name

\* The property handlers of a kind ("get" or "set") that were run
Handlers(kind) == SelectSeq(invoked, LAMBDA e : e.item.kind = kind)

\* C15: Properties.Get naming an interface the registry lacks is answered
\* UnknownInterface, naming a property the interface lacks UnknownProperty,
\* naming a write-only property Failed; no getter runs in any of the three
C15_GetErrors ==
    PropertiesCall("Get", 2) =>
        /\ AskedInterface \notin DOMAIN last.map
              => RepliedError(ErrUnknownInterface) /\ Handlers("get") = <<>>
        /\ (AskedInterface \in DOMAIN last.map /\ ~AsksKnown)
              => /\ RepliedError("org.freedesktop.DBus.Error.UnknownProperty")
                 /\ Handlers("get") = <<>>
        /\ (AsksKnown /\ PropertyAsked.access = "WO")
              => RepliedError(ErrFailed) /\ Handlers("get") = <<>>

C15_Witness ==
    /\ PropertiesCall("Get", 2)
    /\ AsksKnown
    /\ PropertyAsked.access = "WO"
    /\ RepliedError(ErrFailed)
    /\ pc = "idle"

\* The application has just called a property operation of the Interface
\* itself, naming a property the Interface has
DirectProperty(origin) ==
    /\ last.origin = origin
    /\ last.msg.name \in DOMAIN last.map.properties

\* The property a direct call names
DirectAsked == last.map.properties[last.msg.name]

\* C16: set_property_value, called directly or through Properties.Set, with
\* a value whose signature differs from the property's declared one gives
\* InvalidArgs and runs no set handler
C16_MismatchRejected ==
    /\ (/\ DirectProperty("set_property_value")
        /\ get_signature(Unwrap(last.msg.value)) /= DirectAsked.signature)
       => /\ pc = "idle"
          /\ ~result.res.ok
          /\ result.res.err.name = ErrInvalidArgs
          /\ Handlers("set") = <<>>
    /\ (/\ PropertiesCall("Set", 3)
        /\ AsksKnown
        /\ get_signature(last.msg.body[3]) /= PropertyAsked.signature)
       => RepliedError(ErrInvalidArgs) /\ Handlers("set") = <<>>

\* C17: Properties.Set with a body (s, s, v) naming a property that can be
\* written and whose declared signature is the value's runs the set handler
\* once and is answered with a MethodReturn
C17_SetAccepted ==
    (/\ PropertiesCall("Set", 3)
     /\ get_signature(last.msg.body[3]) = <<"v">>
     /\ AsksKnown
     /\ PropertyAsked.access \in {"WO", "RW"}
     /\ PropertyAsked.signature = get_signature(last.msg.body[3]))
    => /\ pc /= "panicked"
       /\ Len(Handlers("set")) = 1
       /\ Len(sent) = 1
       /\ sent[1].item.type = "MethodReturn"

\* C18: get_property_value on a readable property whose getter answers Ok
\* returns the getter's value when its signature is the declared one and
\* panics when it is not
C18_GetChecked ==
    (/\ DirectProperty("get_property_value")
     /\ DirectAsked.access \in {"RO", "RW"}
     /\ last.msg.handler.ok)
    => IF get_signature(last.msg.handler.val) = DirectAsked.signature
       THEN /\ pc = "idle"
            /\ result.res.ok
            /\ result.res.val = << last.msg.handler.val >>
       ELSE pc = "panicked"

\* The method callbacks that were run
Callbacks == SelectSeq(invoked, LAMBDA e : e.item.kind = "method")

\* C19: every MethodReturn handle sends has the signature of the method's
\* declared out-arguments; when the callback returns Ok with values of
\* another signature the process panics and nothing is sent
C19_ReturnSignature ==
    (Handled_direct /\ Resolves(last.map, last.msg)) =>
        /\ \A i \in 1..Len(sent) :
              sent[i].item.type = "MethodReturn"
              => _msg_signature(sent[i].item)
                   = _signature(MethodOf(last.map, last.msg).out_args)
        /\ \A i \in 1..Len(Callbacks) :
              (/\ ~Callbacks[i].item.panic
               /\ Callbacks[i].item.res.ok
               /\ _msg_signature(ReturnMessage(Callbacks[i].item.res.val))
                     /= _signature(MethodOf(last.map, last.msg).out_args))
              => pc = "panicked" /\ sent = <<>>

\* C19's cases: a getter's value of signature "i" comes back from
\* Properties.Get, declared to return "v"
C19_Witness ==
    /\ PropertiesCall("Get", 2)
    /\ Len(Callbacks) = 1
    /\ Callbacks[1].item.res.ok
    /\ Callbacks[1].item.res.val = << IntValue >>
    /\ pc = "panicked"
    /\ sent = <<>>

\* The call lacks the interface header or the member header
LacksHeader == last.msg.interface = None \/ last.msg.member = None

\* C20: handle gives None, runs no callback and sends nothing for a call
\* without an interface or member header; add_object gives a server an
\* Object, and a server whose Object was given such a call hands it on, so
\* every server is offered it and none consumes it
C20_PassedOn ==
    /\ Registered
    /\ (Handled_direct /\ LacksHeader)
       => sent = <<>> /\ invoked = <<>> /\ ~consumed /\ pc = "idle"
    /\ (/\ RunCall
        /\ LacksHeader
        /\ IsSome(last.msg.path)
        /\ \A n \in DOMAIN servers : ObjectAt(n, Unwrap(last.msg.path)))
       => /\ sent = <<>>
          /\ invoked = <<>>
          /\ ~consumed
          /\ Len(offered) = Cardinality(DOMAIN servers)

----------------------------------------------------------------------------
(* Objects of a server *)

\* The path starts with "/" and has no empty segment after it
WellFormed(path) ==
    /\ starts_with(path, <<"/">>)
    /\ \A i \in 1..Len(skip1(split(path))) : skip1(split(path))[i] /= <<>>

\* An insertion (add_object or add_object_manager) was last called on a
\* named server
Inserted ==
    /\ result.op \in {"add_object", "add_object_manager"}
    /\ result.args[1] \in DOMAIN servers

\* The paths at which named server n has an Object
ObjectPathsOf(n) ==
    {Unwrap(servers[n].objects[k].object).name :
        k \in {c \in DOMAIN servers[n].objects : IsSome(servers[n].objects[c].object)}}

\* C21: an insertion on a named server fails with InvalidPath, and registers
\* no Object, exactly when the path does not start with "/" or has an empty
\* segment ("/" itself, a doubled or a trailing "/"); every other path passes
\* the validation, so the insertion returns Ok or PathAlreadyRegistered.
C21_InvalidPath ==
    Inserted =>
        IF WellFormed(result.args[2])
        THEN result.res.ok \/ result.res.err = "PathAlreadyRegistered"
        ELSE /\ ~result.res.ok
             /\ result.res.err = "InvalidPath"
             /\ result.args[2] \notin ObjectPathsOf(result.args[1])

\* The step is an insertion on named server n at a well-formed path
Inserts(n, path) ==
    /\ Inserted'
    /\ result'.args[1] = n
    /\ result'.args[2] = path
    /\ WellFormed(path)

\* C22: an insertion at a path that already holds an Object fails with
\* PathAlreadyRegistered and leaves the server's tree, with the Object and
\* its manager flag, as it was; an insertion at a path that holds none
\* returns Ok and places the Object, so a second insertion at the same path
\* meets it; no insertion replaces an Object.
C22_AtMostOne ==
    [][\A n \in DOMAIN servers, path \in GivenPaths :
          Inserts(n, path) =>
              IF path \in ObjectPathsOf(n)
              THEN /\ ~result'.res.ok
                   /\ result'.res.err = "PathAlreadyRegistered"
                   /\ servers'[n].objects = servers[n].objects
              ELSE /\ result'.res.ok
                   /\ path \in ObjectPathsOf(n)']_vars

\* The segments of a path, and the node of a server's tree that its first i
\* segments lead to
Segments(path) == skip1(split(path))
NodeOf(path, i) == SubSeq(Segments(path), 1, i)

\* How often a name stands in a ChildrenList
TimesListed(names, name) == Cardinality({j \in 1..Len(names) : names[j] = name})

\* C23: after an insertion at a well-formed path every segment of the path
\* stands exactly once in the ChildrenList of its parent node, the list
\* Introspect on the parent's Object folds into child entries (after /a and
\* /a/b are inserted, the list of /a holds b, once).
C23_ChildrenListed ==
    (Inserted /\ WellFormed(result.args[2])) =>
        \A i \in 1..Len(Segments(result.args[2])) :
            /\ NodeOf(result.args[2], i - 1) \in DOMAIN servers[result.args[1]].objects
            /\ TimesListed(servers[result.args[1]].objects[NodeOf(result.args[2], i - 1)].children_names,
                           Segments(result.args[2])[i]) = 1

\* One of the three operations on objects was last called on a listener
OnListener ==
    /\ result.op \in ObjectOperations
    /\ result.args[1] \notin DOMAIN servers

\* C24: add_object, add_object_manager and remove_object called on a
\* listener fail with NoServerName for every path, well-formed or not, and
\* change no tree: every listener's tree is the empty one it was made with.
C24_NoServerName ==
    OnListener =>
        /\ ~result.res.ok
        /\ result.res.err = "NoServerName"
        /\ pc = "idle"
        /\ \A i \in 1..Len(listeners) : listeners[i].objects = DBusObjectTree_new

\* C24's case: add_object_manager of the well-formed path /a on a listener
\* was refused
C24_Witness ==
    /\ OnListener
    /\ result.op = "add_object_manager"
    /\ result.args[2] = P_a
    /\ result.res.err = "NoServerName"
    /\ Len(listeners) >= 1

----------------------------------------------------------------------------
(* Bus names *)

\* add_server was last called for a name the Runner did not hold, and
\* request_name answered with the given reply
Requested(reply) ==
    /\ result.op = "add_server"
    /\ Len(result.args) = 2
    /\ result.args[2].ok
    /\ result.args[2].val = reply

\* C25: when request_name is answered Exists (the name has an owner and
\* DoNotQueue was asked), add_server fails: the Runner registers no server
\* under the name, so none with can_handle = true exists for it.
C25_ExistsFails ==
    Requested("Exists") =>
        /\ ~result.res.ok
        /\ result.args[1] \notin DOMAIN servers

\* remove_server was last called for a server of the Runner, and
\* release_name would answer with the given reply
Removed(reply) ==
    /\ result.op = "remove_server"
    /\ Len(result.args) = 3
    /\ result.args[2].ok
    /\ result.args[2].val = reply

----------------------------------------------------------------------------
(* Removal *)

\* The step is a remove_object on named server n at a well-formed path
Removes(n, path) ==
    /\ result'.op = "remove_object"
    /\ result'.args[1] = n
    /\ result'.args[2] = path
    /\ WellFormed(path)

\* C27: remove_object at a path that holds an Object returns Ok and leaves
\* no Object there (so that a call to it is answered UnknownObject and
\* add_object at the path succeeds again); remove_object at a path that
\* holds none fails with NoSuchPath and changes nothing.
C27_RemoveDestroys ==
    [][\A n \in DOMAIN servers, path \in GivenPaths :
          Removes(n, path) =>
              IF path \in ObjectPathsOf(n)
              THEN /\ result'.res.ok
                   /\ path \notin ObjectPathsOf(n)'
              ELSE /\ ~result'.res.ok
                   /\ result'.res.err = "NoSuchPath"
                   /\ servers' = servers
                   /\ pc' = pc]_vars

----------------------------------------------------------------------------
(* Replies that cannot be sent *)

\* Connection::send failed for a reply to the call Runner::run has just
\* processed
SendFailed == RunCall /\ \E i \in 1..Len(sent) : ~sent[i].ok

\* C28: when the send of a reply to a MethodCall fails, the reply is handed
\* to Connection::send that once and never again, the call is consumed all
\* the same (the server that replied is the last one offered it), and run
\* has not stopped: it goes on to the next message.
C28_FailedSendConsumed ==
    SendFailed =>
        /\ Len(sent) = 1
        /\ consumed
        /\ sent[1].server = offered[Len(offered)]
        /\ pc = "handled"
        /\ ENABLED Loop

\* C28's case: with two named servers, the first one's UnknownObject reply
\* could not be sent; the second one was not offered the call
C28_Witness ==
    /\ SendFailed
    /\ Cardinality(DOMAIN servers) = 2
    /\ Len(offered) = 1
    /\ sent[1].item.name = ErrUnknownObject
    /\ consumed

----------------------------------------------------------------------------
(* Properties.GetAll *)

\* The properties of an interface that can be read
Readable(iface) ==
    {k \in DOMAIN iface.properties : iface.properties[k].access \in {"RO", "RW"}}

\* C29: Properties.GetAll naming an interface of the registry is answered
\* with one MethodReturn that carries a dictionary; its keys are readable
\* properties of the interface (never a write-only one), one run of a
\* getter stands behind each readable property, and no readable property is
\* missing unless getters failed.
C29_GetAllReadable ==
    (PropertiesCall("GetAll", 1) /\ AskedInterface \in DOMAIN last.map) =>
        /\ pc /= "panicked"
        /\ Len(sent) = 1
        /\ sent[1].item.type = "MethodReturn"
        /\ Len(sent[1].item.body) = 1
        /\ sent[1].item.body[1].v \subseteq Readable(last.map[AskedInterface])
        /\ Len(Handlers("get")) = Cardinality(Readable(last.map[AskedInterface]))
        /\ sent[1].item.body[1].v \in {{}, Readable(last.map[AskedInterface])}

----------------------------------------------------------------------------
(* The registry Properties looks names up in *)

\* Interfaces::handle has just been given a Properties.Get or
\* Properties.GetAll whose body names an interface that finalize installed
\* after it made the Properties interface, and that the registry holds
AsksLater(member) ==
    /\ Handled_direct
    /\ last.msg.interface = Some(PropertiesName)
    /\ last.msg.member = Some(member)
    /\ last.msg.body /= <<>>
    /\ AskedInterface = IntrospectableName
    /\ IntrospectableName \in DOMAIN last.map

\* C30: Properties.Get and Properties.GetAll look the interface name up in
\* the registry as it is when the call is handled: naming Introspectable,
\* which finalize installs after Properties, gives no UnknownInterface; Get
\* gets as far as the property (UnknownProperty, Introspectable has none)
\* and GetAll's callback finds the interface and returns Ok.
C30_LiveRegistry ==
    /\ AsksLater("Get") \/ AsksLater("GetAll")
       => \A i \in 1..Len(sent) : sent[i].item.type = "Error"
                                    => sent[i].item.name /= ErrUnknownInterface
    /\ AsksLater("Get") /\ Len(last.msg.body) = 2
       => RepliedError("org.freedesktop.DBus.Error.UnknownProperty")
    /\ AsksLater("GetAll")
       => /\ Len(invoked) >= 1
          /\ invoked[1].item.kind = "method"
          /\ invoked[1].item.res.ok

\* C30's case: Get("org.freedesktop.DBus.Introspectable", "Ro") was answered
\* UnknownProperty
C30_Witness ==
    /\ AsksLater("Get")
    /\ Len(last.msg.body) = 2
    /\ AskedProperty = "Ro"
    /\ RepliedError("org.freedesktop.DBus.Error.UnknownProperty")

----------------------------------------------------------------------------
(* The Runner's map of servers *)

\* The step is the given operation of the Runner called with name n
RunnerCalled(op, n) == result'.op = op /\ result'.args[1] = n

\* C31: add_server with a name the Runner holds fails with
\* ServerAlreadyRegistered, calls request_name not at all and leaves the map
\* of servers, the existing Server included, as it was; remove_server with a
\* name the Runner does not hold fails with NoSuchServer, calls release_name
\* not at all and leaves the map as it was.
C31_MapGuards ==
    [][\A n \in BusNames :
          /\ (RunnerCalled("add_server", n) /\ n \in DOMAIN servers)
             => /\ ~result'.res.ok
                /\ result'.res.err = "ServerAlreadyRegistered"
                /\ leases' = <<>>
                /\ servers' = servers
          /\ (RunnerCalled("remove_server", n) /\ n \notin DOMAIN servers)
             => /\ ~result'.res.ok
                /\ result'.res.err = "NoSuchServer"
                /\ leases' = <<>>
                /\ servers' = servers]_vars

\* C31's case: add_server was called for com.a, which the Runner held with
\* com.b, and was refused
C31_Witness ==
    /\ result.op = "add_server"
    /\ result.args[1] = "com.a"
    /\ ~result.res.ok
    /\ result.res.err = "ServerAlreadyRegistered"
    /\ DOMAIN servers = {"com.a", "com.b"}
    /\ leases = <<>>

----------------------------------------------------------------------------
(* ObjectManager *)

\* C32: GetManagedObjects called on the registry of an object manager is
\* answered with one MethodReturn whose body is the dictionary of object
\* paths, interfaces and properties (signature a{oa{sa{sv}}}).
C32_ManagedObjects ==
    (/\ Handled_direct
     /\ last.msg.interface = Some(ObjectManagerName)
     /\ last.msg.member = Some("GetManagedObjects")
     /\ ObjectManagerName \in DOMAIN last.map)
    => /\ pc /= "panicked"
       /\ Len(sent) = 1
       /\ sent[1].item.type = "MethodReturn"
       /\ _msg_signature(sent[1].item)
            = _signature(last.map[ObjectManagerName].methods["GetManagedObjects"].out_args)

----------------------------------------------------------------------------
(* Insertions that fail *)

\* C33: an insertion that fails leaves the server's tree as it was, with no
\* node and no ChildrenList entry more; an insertion at a path with an empty
\* segment after the first one (a trailing "/") is such a failure: it
\* returns InvalidPath.
C33_FailureLeavesTree ==
    [][\A n \in DOMAIN servers :
          (Inserted' /\ result'.args[1] = n)
          => /\ ~result'.res.ok => servers'[n].objects = servers[n].objects
             /\ ~WellFormed(result'.args[2])
                => /\ ~result'.res.ok
                   /\ result'.res.err = "InvalidPath"]_vars

----------------------------------------------------------------------------
(* ChildrenList and children map *)

\* The node at of a tree lists exactly the keys of its children map, each
\* once
ListsChildren(tree, at) ==
    /\ {tree[at].children_names[i] : i \in 1..Len(tree[at].children_names)}
          = children(tree, at)
    /\ \A i, j \in 1..Len(tree[at].children_names) :
          tree[at].children_names[i] = tree[at].children_names[j] => i = j

\* C34: in every state every node of every server's tree has a ChildrenList
\* that holds exactly the keys of its children map, each exactly once,
\* whatever children were made and removed.
C34_ListMatchesMap ==
    /\ \A n \in DOMAIN servers :
          \A at \in DOMAIN servers[n].objects : ListsChildren(servers[n].objects, at)
    /\ \A i \in 1..Len(listeners) :
          \A at \in DOMAIN listeners[i].objects : ListsChildren(listeners[i].objects, at)

\* C34's case: the child a was removed from a root that had listed a before
\* b; the root lists b, which still has a child of its own
C34_Witness ==
    /\ result.op = "DBusObjectTree::remove_object"
    /\ result.args[2] = <<>>
    /\ result.args[3] = "a"
    /\ servers["com.a"].objects[<<>>].children_names = <<"b">>
    /\ <<"b", "a">> \in DOMAIN servers["com.a"].objects

----------------------------------------------------------------------------
(* One call, one answer *)

\* The method callbacks run for the message
MethodsRun == SelectSeq(invoked, LAMBDA e : e.item.kind = "method")

\* C35: for every inbound MethodCall, however many listeners and named
\* servers the Runner has and whatever handlers they hold, at most one reply
\* is handed to Connection::send and at most one method callback runs; no
\* listener is offered the call and no signal handler runs for it.
C35_AtMostOne ==
    RunCall =>
        /\ Len(sent) <= 1
        /\ Len(MethodsRun) <= 1
        /\ \A i \in 1..Len(offered) : offered[i].kind = "server"
        /\ fired = <<>>

\* C35's case: a call with the path, interface and member of a Target was
\* processed by a Runner with two named servers and a listener that holds a
\* handler under that Target; one reply was sent
C35_Witness ==
    /\ RunCall
    /\ last.msg.member = Some("Changed")
    /\ Cardinality(DOMAIN servers) = 2
    /\ Len(listeners) >= 1
    /\ listeners[1].signals /= <<>>
    /\ Len(sent) = 1
    /\ fired = <<>>

----------------------------------------------------------------------------
(* Messages that are neither calls nor signals *)

\* This step is run reading a method return or an error message
ReadsOther == pc = "running" /\ result'.op = "run_end" /\ Len(result'.args) = 1

\* C36: as the claim has it, reading a message that is neither a MethodCall
\* nor a Signal offers it to no listener and no server and does not end
\* Runner.run: the loop goes on to its next read, so that a later call or
\* signal is still dispatched.
C36_OthersPassThrough ==
    [][ReadsOther => /\ offered' = <<>>
                     /\ pc' \in {"handled", "running"}]_vars

----------------------------------------------------------------------------
(* Names the builder already holds *)

\* This step finalizes a builder that holds a standard interface's name
FinalizesTaken ==
    /\ ifaces.state = "open"
    /\ result'.op = "finalize"
    /\ DOMAIN ifaces.map \cap StandardNames /= {}

\* This step is add_object_manager on a named server with a builder that holds
\* org.freedesktop.DBus.ObjectManager, for a path of the form the tree takes
ManagesTaken ==
    /\ result'.op = "add_object_manager"
    /\ result'.args[2] \in ObjectPaths
    /\ ObjectManagerName \in result'.args[3]

\* finalize refuses a builder that holds a standard interface's name
FinalizeRefuses ==
    FinalizesTaken
        => /\ result'.res = Err("InterfaceAlreadyRegistered")
           /\ ifaces'.state /= "finalized"

\* add_object_manager refuses a builder that holds ObjectManager and places
\* no Object
ManagerRefuses ==
    ManagesTaken
        => /\ result'.res = Err("InterfaceAlreadyRegistered")
           /\ pc' = pc
           /\ \A k \in DOMAIN servers'[result'.args[1]].objects :
                  \/ ~IsSome(servers'[result'.args[1]].objects[k].object)
                  \/ Unwrap(servers'[result'.args[1]].objects[k].object).name
                        /= result'.args[2]

\* C37: as the claim has it, finalize of a builder that already holds Peer,
\* Properties or Introspectable returns InterfaceAlreadyRegistered and gives
\* no registry, and add_object_manager with a builder that already holds
\* ObjectManager returns InterfaceAlreadyRegistered too and registers no
\* Object at the path.
C37_NameTaken == [][FinalizeRefuses /\ ManagerRefuses]_vars

----------------------------------------------------------------------------
(* Connecting over a transport that refuses the match rule *)

\* The handlers a handler map holds under a Target
HandlersAt(map, t) == IF t \in DOMAIN map THEN map[t] ELSE <<>>

\* Every server a reference can be held to
AllServerIds ==
    {ListenerId(i) : i \in 1..MaxListeners} \cup {ServerId(n) : n \in BusNames}

\* The step leaves the exact handlers of server id under Target t as they are
KeepsExact(id, t) ==
    /\ (t \in DOMAIN ServerAt(id).signals) = (t \in DOMAIN ServerAt(id).signals')
    /\ HandlersAt(ServerAt(id).signals, t) = HandlersAt(ServerAt(id).signals, t)'

\* The step leaves the namespace handlers of server id under Target t as
\* they are
KeepsNamespace(id, t) ==
    /\ (t \in DOMAIN ServerAt(id).namespace_signals)
          = (t \in DOMAIN ServerAt(id).namespace_signals')
    /\ HandlersAt(ServerAt(id).namespace_signals, t)
          = HandlersAt(ServerAt(id).namespace_signals, t)'

\* The step is a connect or connect_namespace whose add_match failed: it
\* returns the error and no handler map of any server changes
ConnectRefused ==
    (result'.op \in {"connect", "connect_namespace"} /\ ~result'.res.ok)
    => /\ result'.res = Err("ErrorMessage")
       /\ nextHandler' = nextHandler
       /\ \A id \in ServerIds, t \in Targets : KeepsExact(id, t) /\ KeepsNamespace(id, t)

\* The step is a connect (or connect_namespace) of server at under Target on
\* that succeeded: the new closure is last under on in the exact (namespace)
\* map of at, and nothing else in any handler map changes
ConnectAppends(at, on) ==
    (/\ at \in ServerIds
     /\ result'.op \in {"connect", "connect_namespace"}
     /\ result'.res.ok
     /\ nextHandler' /= nextHandler
     /\ result'.args[1] = at
     /\ result'.args[2] = on)
    => /\ nextHandler' = nextHandler + 1
       /\ IF result'.op = "connect"
          THEN /\ HandlersAt(ServerAt(at).signals, on)'
                    = Append(HandlersAt(ServerAt(at).signals, on), nextHandler)
               /\ KeepsNamespace(at, on)
          ELSE /\ HandlersAt(ServerAt(at).namespace_signals, on)'
                    = Append(HandlersAt(ServerAt(at).namespace_signals, on), nextHandler)
               /\ KeepsExact(at, on)
       /\ \A id \in ServerIds, t \in Targets :
              (id /= at \/ t /= on) => KeepsExact(id, t) /\ KeepsNamespace(id, t)

\* C39: connect and connect_namespace call add_match first.  When it fails
\* the call returns its error and neither handler map of any server changes,
\* so the handler can never run; when it succeeds the handler is appended
\* under the given Target to exactly one map, the exact one for connect and
\* the namespace one for connect_namespace.  Only handlers that a map holds
\* ever run.
C39_MatchFirst ==
    [][/\ ConnectRefused
       /\ \A at \in AllServerIds, on \in Targets : ConnectAppends(at, on)
       /\ \A i \in 1..Len(fired') : fired'[i].item < nextHandler]_vars

\* C39's case: a connect was refused by add_match on a server that holds a
\* handler from an earlier connect that add_match let through
C39_Witness ==
    /\ result.op = "connect"
    /\ ~result.res.ok
    /\ HandlersAt(ServerAt(result.args[1]).signals, result.args[2]) = <<1>>

----------------------------------------------------------------------------
(* The lease of a bus name *)

\* How often the step called request_name or release_name (call) for name n
TimesCalled(call, n) ==
    Len(SelectSeq(leases', LAMBDA c : c = NameCall(call, n)))

\* C38: a step that puts a Server under a name into the Runner calls
\* request_name for the name once and release_name not at all; a step that
\* takes the Server out, remove_server or the Runner's drop, calls
\* release_name for the name once; request_name is called for a name only by
\* an add_server for a name the Runner does not hold, and release_name only
\* by a step that takes the Server out, never for a Server that stays; an
\* add_server that fails adds no entry and releases nothing; add_listener
\* calls neither.
C38_NameLease ==
    [][/\ \A n \in LeaseNames :
            /\ (n \notin DOMAIN servers /\ n \in DOMAIN servers')
                  => leases' = << NameCall("RequestName", n) >>
            /\ (n \in DOMAIN servers /\ n \notin DOMAIN servers')
                  => TimesCalled("ReleaseName", n) = 1
            /\ TimesCalled("RequestName", n) > 0
                  => /\ TimesCalled("RequestName", n) = 1
                     /\ result'.op = "add_server"
                     /\ n \notin DOMAIN servers
            /\ TimesCalled("ReleaseName", n) > 0
                  => n \in DOMAIN servers /\ n \notin DOMAIN servers'
       /\ (result'.op = "add_server" /\ ~result'.res.ok)
            => /\ DOMAIN servers' = DOMAIN servers
               /\ \A i \in 1..Len(leases') : leases'[i].call /= "ReleaseName"
       /\ result'.op = "add_listener" => leases' = <<>>]_vars

====
